---- MODULE Spec2Model ----
(***************************************************************************)
(* A model of the `probability` crate: the Xorshift+ source of randomness, *)
(* the conversion of a 64-bit chunk to an f64 quantity, the thread-local   *)
(* default generator, the sampling iterator and the Binomial quantile.     *)
(*                                                                         *)
(* A u64 is a function from bit positions 0..63 (bit 0 the least           *)
(* significant) to {0, 1}, so that shifts, xor and the wrapping addition   *)
(* keep their 64-bit width.                                                *)
(***************************************************************************)
EXTENDS Integers, Sequences, FiniteSets, TLC

VARIABLES
    gens,       \* XorshiftPlus values: id -> [made, seed, state, out]
    chunk,      \* the u64 handed to Quantity::make
    quantity,   \* the quantity made from it
    dist,       \* the distribution borrowed by the sampling iterator
    source,     \* the source borrowed by it: [seed, state, calls]
    iter,       \* Independent(&dist, &mut source): [made, items]
    tls,        \* the thread-local DEFAULT of each thread: [init, state]
    handles,    \* the Default handles each thread holds: the cell of each
    log,        \* the values each thread has read through its handles
    seeded,     \* per thread: the seed last in force and the reads before it
    via,        \* the reads and seeds of one thread in order, with the handle
                \* each went through
    binom,      \* the Binomial value under evaluation
    asked,      \* the last call on it: its argument and what it returned
    draw,       \* the sample call in progress: where it stands in its loops
    call        \* the last evaluation of a distribution function

genVars == <<gens>>
quantityVars == <<chunk, quantity>>
samplerVars == <<dist, source, iter>>
defaultVars == <<tls, handles, log, seeded, via>>
binomialVars == <<binom, asked>>
drawVars == <<draw>>
callVars == <<call>>

vars == <<gens, chunk, quantity, dist, source, iter, tls, handles, log, seeded,
          via, binom, asked, draw, call>>

-----------------------------------------------------------------------------
(* 64-bit words *)

W64 == 64

Bits64 == 0..(W64 - 1)

Zero64 == [i \in Bits64 |-> 0]

AllOnes64 == [i \in Bits64 |-> 1]

\* The word whose four 16-bit limbs are l3 (highest) .. l0 (lowest).
FromLimbs(l3, l2, l1, l0) ==
    LET limb(j) == IF j = 3 THEN l3 ELSE IF j = 2 THEN l2 ELSE IF j = 1 THEN l1 ELSE l0
    IN  [i \in Bits64 |-> (limb(i \div 16) \div (2 ^ (i % 16))) % 2]

\* The word of a number below 2^16.
FromNat(n) == FromLimbs(0, 0, 0, n)

\* x << k on u64: the bits shifted past bit 63 are dropped.
Shl(x, k) == [i \in Bits64 |-> IF i >= k THEN x[i - k] ELSE 0]

\* x >> k on u64 (logical).
Shr(x, k) == [i \in Bits64 |-> IF i + k < W64 THEN x[i + k] ELSE 0]

\* x ^ y.
Xor(x, y) == [i \in Bits64 |-> (x[i] + y[i]) % 2]

\* The carries of x + y over bit positions 0..(n - 1): element i + 1 of the
\* result is the carry into position i, the last element the carry out.
RECURSIVE Carries(_, _, _, _)
Carries(x, y, n, acc) ==
    IF Len(acc) = n + 1 THEN acc
    ELSE LET i == Len(acc) - 1
         IN  Carries(x, y, n, Append(acc, (x[i] + y[i] + acc[i + 1]) \div 2))

\* u64::wrapping_add: the sum modulo 2^64, the carry out of bit 63 dropped.
WrappingAdd(x, y) ==
    LET c == Carries(x, y, W64, <<0>>)
    IN  [i \in Bits64 |-> (x[i] + y[i] + c[i + 1]) % 2]

\* x < y for two numbers given by their bits 0..top.
RECURSIVE LessFrom(_, _, _)
LessFrom(x, y, top) ==
    IF top < 0 THEN FALSE
    ELSE IF x[top] # y[top] THEN x[top] < y[top]
    ELSE LessFrom(x, y, top - 1)

\* x < y as unsigned integers.
LessU64(x, y) == LessFrom(x, y, W64 - 1)

-----------------------------------------------------------------------------
(* f64 values that are a non-negative integer times a power of two.        *)
(* [num, exp] stands for num * 2^exp; num is an integer of up to 66 bits,  *)
(* wide enough for u64::MAX as f64 + 1.0.                                  *)

\* The bits of an f64 significand.
MantBits == 53

Min(a, b) == IF a <= b THEN a ELSE b

WideBits == 0..(W64 + 1)

Widen(w) == [i \in WideBits |-> IF i < W64 THEN w[i] ELSE 0]

WidePow2(k) == [i \in WideBits |-> IF i = k THEN 1 ELSE 0]

WideAdd(x, y) ==
    LET c == Carries(x, y, W64 + 2, <<0>>)
    IN  [i \in WideBits |-> (x[i] + y[i] + c[i + 1]) % 2]

\* The position of the highest set bit, -1 for zero.
RECURSIVE HighBitFrom(_, _)
HighBitFrom(v, top) ==
    IF top < 0 THEN -1 ELSE IF v[top] = 1 THEN top ELSE HighBitFrom(v, top - 1)

HighBit(v) == HighBitFrom(v, W64 + 1)

\* Rounding of an integer to the nearest f64, ties to the even significand.
RoundToF64(v) ==
    LET h == HighBit(v)
        d == h - (MantBits - 1)
    IN  IF d <= 0 THEN v
        ELSE LET kept  == [i \in WideBits |-> IF i >= d THEN v[i] ELSE 0]
                 half  == v[d - 1] = 1
                 below == \E i \in WideBits : i < d - 1 /\ v[i] = 1
                 odd   == v[d] = 1
             IN  IF half /\ (below \/ odd) THEN WideAdd(kept, WidePow2(d)) ELSE kept

\* `w as f64` for a u64 w: an integer-valued f64.
CastU64ToF64(w) == RoundToF64(Widen(w))

\* a + b for integer-valued f64 a and b.
AddF64(a, b) == RoundToF64(WideAdd(a, b))

\* a / d for an integer-valued f64 a and a divisor d that is a power of two:
\* the quotient is exact, only the exponent changes.
DivF64(a, d) == [num |-> a, exp |-> 0 - HighBit(d)]

IsPow2(v) == \E k \in WideBits : v = WidePow2(k)

WideShl(v, k) == [i \in WideBits |-> IF i >= k THEN v[i - k] ELSE 0]

WideLess(a, b) == LessFrom(a, b, W64 + 1)

\* x < y, for operands whose aligned numerators fit the wide integers.
LessF64(x, y) ==
    IF x.exp <= y.exp THEN WideLess(x.num, WideShl(y.num, y.exp - x.exp))
    ELSE WideLess(WideShl(x.num, x.exp - y.exp), y.num)

\* x < 1.0
LessThanOne(x) ==
    IF x.exp >= 0 THEN x.num = Widen(Zero64)
    ELSE HighBit(x.num) < 0 - x.exp

\* x == 1.0
IsOne(x) == x.exp <= 0 /\ x.num = WidePow2(0 - x.exp)

-----------------------------------------------------------------------------
(* generator/mod.rs: Quantity *)

\* impl Quantity for f64: chunk as f64 / (::std::u64::MAX as f64 + 1.0)
QuantityMakeF64(c) ==
    LET divisor == AddF64(CastU64ToF64(AllOnes64), WidePow2(0))
    IN  [kind |-> "f64", value |-> DivF64(CastU64ToF64(c), divisor)]

\* impl Quantity for u64: the chunk itself.
QuantityMakeU64(c) == [kind |-> "u64", value |-> c]

-----------------------------------------------------------------------------
(* generator/xorshift.rs *)

XorshiftPlusNewCounted(seed) ==
    <<seed[1], Xor(seed[2], FromNat(Cardinality({g \in DOMAIN gens : gens[g].made})))>>

\* XorshiftPlus::new: the state is the seed.
XorshiftPlusNew(seed) == seed

MixShortShift(x0, y) ==
    LET x1 == Xor(x0, Shl(x0, 23))
        x2 == Xor(x1, Shr(x1, 7))
    IN  Xor(Xor(x2, y), Shr(y, 26))

\* The mixing of XorshiftPlus::read: the value of x stored into state[1].
Mix(x0, y) ==
    LET x1 == Xor(x0, Shl(x0, 23))
        x2 == Xor(x1, Shr(x1, 17))
    IN  Xor(Xor(x2, y), Shr(y, 26))

\* a read that stores y in both words of the state
XorshiftPlusReadStale(state) ==
    [state |-> <<state[2], state[2]>>,
     value |-> WrappingAdd(Mix(state[1], state[2]), state[2])]

\* XorshiftPlus::read: the state left behind and the chunk returned.
XorshiftPlusRead(state) ==
    LET y == state[2]
        x == Mix(state[1], y)
    IN  [state |-> <<y, x>>, value |-> WrappingAdd(x, y)]

-----------------------------------------------------------------------------
(* XorshiftPlus values in use *)

GenIds == {"a", "b"}

\* The reads modelled per generator.
MaxReads == 3

Seeds ==
    { <<FromNat(42), FromNat(69)>>,
      <<FromNat(1), FromNat(2)>>,
      <<Zero64, Zero64>>,
      <<AllOnes64, FromLimbs(32768, 0, 0, 0)>>,
      <<FromLimbs(2016, 32752, 16383, 57344), Zero64>> }

NoGen == [made |-> FALSE, seed |-> <<Zero64, Zero64>>,
          state |-> <<Zero64, Zero64>>, out |-> <<>>]

GenInit == gens = [g \in GenIds |-> NoGen]

\* let g = XorshiftPlus::new(seed)
New(g, seed) ==
    /\ ~gens[g].made
    /\ gens' = [gens EXCEPT ![g] = [made |-> TRUE, seed |-> seed,
                                    state |-> XorshiftPlusNew(seed), out |-> <<>>]]

\* a read that advances one state held in common by every generator, as a
\* static cell would
ReadShared(g) ==
    /\ gens[g].made
    /\ Len(gens[g].out) < MaxReads
    /\ LET r == XorshiftPlusRead(gens["a"].state)
       IN  gens' = [gens EXCEPT !["a"].state = r.state,
                                ![g].out = Append(@, r.value)]

\* g.read()
Read(g) ==
    /\ gens[g].made
    /\ Len(gens[g].out) < MaxReads
    /\ LET r == XorshiftPlusRead(gens[g].state)
       IN  gens' = [gens EXCEPT ![g].state = r.state,
                                ![g].out = Append(@, r.value)]

NoQuantity == [kind |-> "none"]

QuantityIdle == chunk = Zero64 /\ quantity = NoQuantity

NoDist == [kind |-> "none"]

NoSource == [seed |-> <<Zero64, Zero64>>, state |-> <<Zero64, Zero64>>, calls |-> 0]

NoIter == [made |-> FALSE, items |-> <<>>]

SamplerIdle == dist = NoDist /\ source = NoSource /\ iter = NoIter

Threads == {"t1", "t2"}

\* The seed of every thread's default generator.
DefaultSeed == <<FromNat(42), FromNat(69)>>

DefaultInit ==
    /\ tls = [t \in Threads |-> [init |-> FALSE, state |-> <<Zero64, Zero64>>]]
    /\ handles = [t \in Threads |-> <<>>]
    /\ log = [t \in Threads |-> <<>>]
    /\ seeded = [t \in Threads |-> [seed |-> DefaultSeed, at |-> 0, by |-> "default"]]
    /\ via = <<>>

NoBinomial == [made |-> FALSE]

NoCall == [op |-> "none"]

BinomialIdle == binom = NoBinomial /\ asked = NoCall

\* no sample call in progress, no evaluation made
NoDraw == [pc |-> "idle"]

DrawIdle == draw = NoDraw

CallIdle == call = NoCall

Init == GenInit /\ QuantityIdle /\ SamplerIdle /\ DefaultInit /\ BinomialIdle /\ DrawIdle /\ CallIdle

Next ==
    \/ \E g \in GenIds, seed \in Seeds :
          New(g, seed) /\ UNCHANGED <<quantityVars, samplerVars, defaultVars, binomialVars, drawVars, callVars>>
    \/ \E g \in GenIds : Read(g) /\ UNCHANGED <<quantityVars, samplerVars, defaultVars, binomialVars, drawVars, callVars>>

Spec == Init /\ [][Next]_vars

-----------------------------------------------------------------------------
(* Claims on the Xorshift+ generator *)

\* The 16-bit limb j (0 the lowest) of a word, as a number.
Limb(w, j) ==
    LET v[i \in 0..16] == IF i = 0 THEN 0 ELSE v[i - 1] * 2 + w[16 * j + 16 - i]
    IN  v[16]

\* (x + y) mod 2^64 by schoolbook addition of the 16-bit limbs.
SumMod64(x, y) ==
    LET t0 == Limb(x, 0) + Limb(y, 0)
        t1 == Limb(x, 1) + Limb(y, 1) + t0 \div 65536
        t2 == Limb(x, 2) + Limb(y, 2) + t1 \div 65536
        t3 == Limb(x, 3) + Limb(y, 3) + t2 \div 65536
    IN  FromLimbs(t3 % 65536, t2 % 65536, t1 % 65536, t0 % 65536)

\* The i-th value read from a generator whose state is s, worked out word by
\* word: x = s0 xor (s0 << 23), x = x xor (x >> 17), x = x xor s1 xor
\* (s1 >> 26), the state becomes (s1, x) and the value is x + s1 in 64 bits.
RECURSIVE Foretold(_, _)
Foretold(s, i) ==
    LET xa == Xor(s[1], Shl(s[1], 23))
        xb == Xor(xa, Shr(xa, 17))
        xc == Xor(xb, Xor(s[2], Shr(s[2], 26)))
    IN  IF i <= 1 THEN SumMod64(xc, s[2]) ELSE Foretold(<<s[2], xc>>, i - 1)

\* C1: two XorshiftPlus generators created with the same seed pair return
\* the same value on their i-th read, for every i >= 1 and every seed: the
\* i-th value of every generator is the one its seed and i alone give,
\* whatever the other generator has been seeded with or has read meanwhile.
C1_SameSeedSameReads ==
    /\ \A g, h \in GenIds :
          (gens[g].made /\ gens[h].made /\ gens[g].seed = gens[h].seed) =>
              \A i \in 1..Min(Len(gens[g].out), Len(gens[h].out)) :
                  gens[g].out[i] = gens[h].out[i]
    /\ \A g \in GenIds :
          gens[g].made =>
              \A i \in 1..Len(gens[g].out) :
                  gens[g].out[i] = Foretold(gens[g].seed, i)

\* Two generators of the same non-trivial seed have both been read, one
\* further than the other.
C1_Witness ==
    /\ gens["a"].made /\ gens["b"].made
    /\ gens["a"].seed = gens["b"].seed
    /\ gens["a"].seed # <<Zero64, Zero64>>
    /\ Len(gens["a"].out) = MaxReads
    /\ Len(gens["b"].out) >= 2

\* The step of generator g is a read.
IsRead(g) ==
    /\ gens[g].made /\ gens'[g].made
    /\ Len(gens'[g].out) = Len(gens[g].out) + 1

\* C2: one read on state (s0, s1) computes x = s0 xor (s0 << 23), then
\* x = x xor (x >> 17), then x = x xor s1 xor (s1 >> 26), leaves the state
\* (s1, x) and returns (x + s1) mod 2^64; every read of a generator is such a
\* step, none fails.
C2_ReadStep ==
    [][\A g \in GenIds : IsRead(g) =>
         LET s0 == gens[g].state[1]
             s1 == gens[g].state[2]
             xa == Xor(s0, Shl(s0, 23))
             xb == Xor(xa, Shr(xa, 17))
             xc == Xor(xb, Xor(s1, Shr(s1, 26)))
         IN  /\ gens'[g].state = <<s1, xc>>
             /\ gens'[g].out = Append(gens[g].out, SumMod64(xc, s1))
             /\ gens'[g].seed = gens[g].seed]_vars

\* Generator a, seeded with [42, 69], has returned the three values the
\* algorithm gives for that seed, and the last addition of generator b has
\* wrapped around (the sum is below one of its terms).
C2_Witness ==
    /\ gens["a"].made /\ gens["a"].seed = <<FromNat(42), FromNat(69)>>
    /\ gens["a"].out = << FromLimbs(0, 0, 5376, 2868),
                          FromLimbs(0, 0, 19584, 9950),
                          FromLimbs(10, 32768, 19586, 48188) >>
    /\ gens["b"].made /\ Len(gens["b"].out) > 0
    /\ LessU64(gens["b"].out[Len(gens["b"].out)], gens["b"].state[1])

-----------------------------------------------------------------------------
(* Making a quantity out of a chunk *)

EndLimbs == {0, 1, 1023, 1024, 61439, 63487, 63488, 64511, 64512, 64513, 65535}

\* The chunks tried: every mix of empty and full upper limbs over the lowest
\* limbs around the rounding points of a 53-bit significand.
Chunks ==
    { FromLimbs(l3, l2, l1, l0) : l3 \in {0, 32768, 65535}, l2 \in {0, 65535},
                                  l1 \in {0, 65535}, l0 \in EndLimbs }

InitQuantity ==
    chunk \in Chunks /\ quantity = NoQuantity /\ GenInit /\ SamplerIdle /\ DefaultInit
    /\ BinomialIdle /\ DrawIdle /\ CallIdle

\* let x: f64 = Quantity::make(chunk)
MakeF64 ==
    /\ quantity = NoQuantity
    /\ quantity' = QuantityMakeF64(chunk)
    /\ UNCHANGED <<genVars, samplerVars, defaultVars, binomialVars, drawVars, callVars, chunk>>

\* let x: u64 = Quantity::make(chunk)
MakeU64 ==
    /\ quantity = NoQuantity
    /\ quantity' = QuantityMakeU64(chunk)
    /\ UNCHANGED <<genVars, samplerVars, defaultVars, binomialVars, drawVars, callVars, chunk>>

NextQuantity == MakeF64 \/ MakeU64

SpecQuantity == InitQuantity /\ [][NextQuantity]_vars

\* C3: for every 64-bit word the f64 quantity made from it is >= 0 and
\* strictly less than 1, the words closest to 2^64 - 1 included.
C3_BelowOne ==
    quantity.kind = "f64" => LessThanOne(quantity.value)

\* What the code does instead: the quantity is below 1 or exactly 1, and it
\* is 1 exactly for the 1024 chunks from 2^64 - 1024 on.
C3_AtMostOne ==
    quantity.kind = "f64" =>
        /\ LessThanOne(quantity.value) \/ IsOne(quantity.value)
        /\ IsOne(quantity.value) <=>
              ~LessU64(chunk, FromLimbs(65535, 65535, 65535, 64512))

-----------------------------------------------------------------------------
(* sampler/mod.rs: the sampling iterator over a distribution and a source *)

\* Generator::next::<f64>: Quantity::make(self.read()).
GeneratorNextF64(state) ==
    LET r == XorshiftPlusRead(state)
    IN  [state |-> r.state, value |-> QuantityMakeF64(r.value).value]

\* Bernoulli::new(p) for p = k/4: q = 1.0 - p is exact.
BernoulliNew(k) ==
    [kind |-> "bernoulli",
     p |-> [num |-> Widen(FromNat(k)), exp |-> -2],
     q |-> [num |-> Widen(FromNat(4 - k)), exp |-> -2]]

\* Uniform::new(0.0, 1.0).
UniformDefault == [kind |-> "uniform", a |-> 0, b |-> 1]

\* Bernoulli::sample: if generator.next::<f64>() < self.q { 0 } else { 1 }
BernoulliSample(d, state) ==
    LET u == GeneratorNextF64(state)
    IN  [state |-> u.state, value |-> IF LessF64(u.value, d.q) THEN 0 ELSE 1]

\* Uniform::sample: self.a + (self.b - self.a) * generator.next::<f64>(),
\* which for a = 0.0 and b = 1.0 is the quantity read.
UniformSample(d, state) ==
    LET u == GeneratorNextF64(state)
    IN  [state |-> u.state, value |-> u.value]

\* d.sample(&mut source)
DistSample(d, state) ==
    IF d.kind = "bernoulli" THEN BernoulliSample(d, state) ELSE UniformSample(d, state)

IndependentNextAhead(d, state) ==
    LET ahead == DistSample(d, state)
        s     == DistSample(d, ahead.state)
    IN  [item |-> <<"Some", ahead.value>>, state |-> s.state, calls |-> 2]

\* Iterator::next of Independent (and of Sampler): Some(self.0.sample(self.1))
IndependentNext(d, state) ==
    LET s == DistSample(d, state)
    IN  [item |-> <<"Some", s.value>>, state |-> s.state, calls |-> 1]

Dists == {BernoulliNew(1), BernoulliNew(2), BernoulliNew(3), UniformDefault}

\* The samples drawn directly before the iterator is made, and the elements
\* taken from it.
MaxDirect == 2
MaxItems == 3

InitSampler ==
    /\ dist \in Dists
    /\ \E seed \in Seeds :
          source = [seed |-> seed, state |-> XorshiftPlusNew(seed), calls |-> 0]
    /\ iter = NoIter
    /\ GenInit /\ QuantityIdle /\ DefaultInit /\ BinomialIdle /\ DrawIdle /\ CallIdle

\* dist.sample(&mut source), while the source is not borrowed by an iterator.
Sample ==
    /\ ~iter.made
    /\ source.calls < MaxDirect
    /\ LET s == DistSample(dist, source.state)
       IN  source' = [source EXCEPT !.state = s.state, !.calls = @ + 1]
    /\ UNCHANGED <<genVars, quantityVars, defaultVars, binomialVars, drawVars, callVars, dist, iter>>

\* let it = Independent(&dist, &mut source)
Independent ==
    /\ ~iter.made
    /\ iter' = [made |-> TRUE, items |-> <<>>]
    /\ UNCHANGED <<genVars, quantityVars, defaultVars, binomialVars, drawVars, callVars, dist, source>>

\* it.next()
IterNext ==
    /\ iter.made
    /\ Len(iter.items) < MaxItems
    /\ LET n == IndependentNext(dist, source.state)
       IN  /\ iter' = [iter EXCEPT !.items = Append(@, n.item)]
           /\ source' = [source EXCEPT !.state = n.state, !.calls = @ + n.calls]
    /\ UNCHANGED <<genVars, quantityVars, defaultVars, binomialVars, drawVars, callVars, dist>>

NextSampler == Sample \/ Independent \/ IterNext

SpecSampler == InitSampler /\ [][NextSampler]_vars

\* A state with each word written out as the table of its 64 bits: the same
\* state, its bits worked out once however many reads are made from it.
Settled(state) == <<state[1] @@ Zero64, state[2] @@ Zero64>>

\* The state of a generator seeded with `seed` after n reads.
RECURSIVE StateAfter(_, _)
StateAfter(seed, n) ==
    IF n = 0 THEN seed
    ELSE Settled(XorshiftPlusRead(StateAfter(seed, n - 1)).state)

\* The n-th consecutive result of d.sample on a generator seeded with `seed`.
NthSample(d, seed, n) == DistSample(d, StateAfter(seed, n - 1)).value

\* The sample calls made on the source before the iterator was handed it.
CallsBefore == source.calls - Len(iter.items)

\* C4: the i-th element of Independent(&d, &mut src) is the result of the
\* i-th consecutive call d.sample(src): every element is Some, making the
\* iterator calls sample not at all, and after n elements the source has seen
\* exactly n more sample calls, in order, none ahead of the elements taken.
C4_OneSamplePerElement ==
    iter.made =>
        /\ CallsBefore \in 0..MaxDirect
        /\ source.state = StateAfter(source.seed, source.calls)
        /\ \A i \in 1..Len(iter.items) :
              iter.items[i] = <<"Some", NthSample(dist, source.seed, CallsBefore + i)>>

\* The iterator was made after one direct sample, all its elements have been
\* taken, and the elements of a Bernoulli distribution are not all equal.
C4_Witness ==
    /\ iter.made /\ Len(iter.items) = MaxItems
    /\ source.calls = MaxItems + 1
    /\ dist.kind = "bernoulli"
    /\ \E i, j \in 1..MaxItems : iter.items[i] # iter.items[j]

-----------------------------------------------------------------------------
(* generator/mod.rs: the default generator *)

DefaultCellShared(t) == "t1"

\* a cell of its own for every handle after the first
DefaultCellPerHandle(t) ==
    IF handles[t] = <<>> THEN t ELSE CHOOSE c \in Threads : c # t

\* thread_local!(static DEFAULT ...): the cell a thread's handles refer to is
\* the thread's own.
DefaultCell(t) == t

SeedCellMixed(state, seed) == <<Xor(state[1], seed[1]), Xor(state[2], seed[2])>>

\* Default::seed: *self.0.borrow_mut() = XorshiftPlus::new(seed)
SeedCell(state, seed) == XorshiftPlusNew(seed)

\* The handles a thread takes, and the values it reads through them.
HandleIds == {1, 2}

MaxDefaultReads == 3

\* The seeds a thread gives its default generator.
Reseeds == { <<FromNat(1), FromNat(2)>> }

\* generator::default() on thread t: the first access initializes the
\* thread's DEFAULT with XorshiftPlus::new([42, 69]); the handle is a clone
\* of the Rc.
Default(t) ==
    /\ Len(handles[t]) < Cardinality(HandleIds)
    /\ LET c == DefaultCell(t)
       IN  /\ tls' = IF tls[c].init THEN tls
                     ELSE [tls EXCEPT ![c] = [init |-> TRUE,
                                              state |-> XorshiftPlusNew(DefaultSeed)]]
           /\ handles' = [handles EXCEPT ![t] = Append(@, c)]
    /\ UNCHANGED <<genVars, quantityVars, samplerVars, binomialVars, drawVars, callVars, log, seeded>>

\* handle.read() on thread t: self.0.borrow_mut().read()
DefaultRead(t, h) ==
    /\ h \in 1..Len(handles[t])
    /\ Len(log[t]) < MaxDefaultReads
    /\ LET c == handles[t][h]
           r == XorshiftPlusRead(tls[c].state)
       IN  /\ tls' = [tls EXCEPT ![c].state = r.state]
           /\ log' = [log EXCEPT ![t] = Append(@, r.value)]
    /\ UNCHANGED <<genVars, quantityVars, samplerVars, binomialVars, drawVars, callVars, handles, seeded>>

\* handle.seed(seed) on thread t
DefaultReseed(t, h, seed) ==
    /\ h \in 1..Len(handles[t])
    /\ LET c == handles[t][h]
       IN  tls' = [tls EXCEPT ![c].state = SeedCell(@, seed)]
    /\ seeded' = [seeded EXCEPT ![t] = [seed |-> seed, at |-> Len(log[t]), by |-> "seed"]]
    /\ UNCHANGED <<genVars, quantityVars, samplerVars, binomialVars, drawVars, callVars, handles, log>>

InitDefault == DefaultInit /\ GenInit /\ QuantityIdle /\ SamplerIdle /\ BinomialIdle /\ DrawIdle /\ CallIdle

NextDefault ==
    \/ \E t \in Threads : Default(t) /\ UNCHANGED via
    \/ \E t \in Threads, h \in HandleIds : DefaultRead(t, h) /\ UNCHANGED via
    \/ \E t \in Threads, h \in HandleIds, seed \in Reseeds :
          DefaultReseed(t, h, seed) /\ UNCHANGED via

SpecDefault == InitDefault /\ [][NextDefault]_vars

\* The thread whose handles are watched, and the seeds it may give.
Watched == "t1"

MaxReseeds == 2

SeedsGiven == Cardinality({i \in 1..Len(via) : via[i][1] = "seed"})

\* the thread takes its handles, reads and seeds through any of them, each
\* read and seed written down with its handle
NextHandles ==
    \/ Default(Watched) /\ UNCHANGED via
    \/ \E h \in HandleIds :
          DefaultRead(Watched, h) /\ via' = Append(via, <<"read", h>>)
    \/ \E h \in HandleIds, seed \in Reseeds :
          /\ SeedsGiven < MaxReseeds
          /\ DefaultReseed(Watched, h, seed)
          /\ via' = Append(via, <<"seed", h>>)

SpecHandles == InitDefault /\ [][NextHandles]_vars

\* The value of the n-th read of a XorshiftPlus created with `seed`.
NthRead(seed, n) == XorshiftPlusRead(StateAfter(seed, n - 1)).value

\* C5: under any interleaving of the threads, the values a thread has read
\* from its default generator are the reads of a private XorshiftPlus seeded
\* with [42, 69], until the thread itself reseeds; the reads and reseeds of
\* the other threads do not change them.
C5_ThreadConfined ==
    \A t \in Threads :
        seeded[t].by = "default" =>
            \A i \in 1..Len(log[t]) : log[t][i] = NthRead(DefaultSeed, i)

\* Thread t1 has made all its reads without reseeding, while thread t2 has
\* read and has reseeded its own generator.
C5_Witness ==
    /\ seeded["t1"].by = "default" /\ Len(log["t1"]) = MaxDefaultReads
    /\ seeded["t2"].by = "seed" /\ seeded["t2"].seed # DefaultSeed
    /\ Len(log["t2"]) >= 2 /\ seeded["t2"].at = 1

\* After the last seed(s) of a thread, its reads are those of a fresh
\* XorshiftPlus::new(s).
FreshAfterSeed ==
    \A t \in Threads :
        \A i \in 1..Len(log[t]) :
            i > seeded[t].at => log[t][i] = NthRead(seeded[t].seed, i - seeded[t].at)

\* No step changes a value a thread has read.
ReadsKept ==
    \A t \in Threads : \A i \in 1..Len(log[t]) :
        Len(log'[t]) >= i /\ log'[t][i] = log[t][i]

\* C6: after seed(s) on the default generator the reads that follow are the
\* reads of a fresh XorshiftPlus::new(s), whatever number of reads preceded
\* the call, and the values read before the call stay as they were.
C6_ReseedRestarts == []FreshAfterSeed /\ [][ReadsKept]_vars

\* A thread has reseeded after two reads and has read again since.
C6_Witness ==
    \E t \in Threads :
        /\ seeded[t].by = "seed" /\ seeded[t].seed # DefaultSeed
        /\ seeded[t].at = 2 /\ Len(log[t]) = 3

-----------------------------------------------------------------------------
(* Natural numbers of any size, for the significands of f64 arithmetic:   *)
(* a sequence of 15-bit limbs, least significant first, without a most    *)
(* significant zero limb; zero is the empty sequence.  Carries are found   *)
(* by look-ahead, so that no operation but division walks the limbs one    *)
(* after the other.                                                        *)

LimbBase == 2^15

Pow2(k) == 2^k

Max(a, b) == IF a >= b THEN a ELSE b

MaxOf(S) == CHOOSE x \in S : \A y \in S : y <= x

Trim(a) ==
    LET used == {i \in 1..Len(a) : a[i] # 0}
    IN  IF used = {} THEN <<>> ELSE SubSeq(a, 1, MaxOf(used))

\* a natural number below 2^31 as limbs
NatOf(n) ==
    Trim(<<n % LimbBase, (n \div LimbBase) % LimbBase,
           n \div (LimbBase * LimbBase)>>)

LimbAt(a, i) == IF i >= 1 /\ i <= Len(a) THEN a[i] ELSE 0

NatAdd(a, b) ==
    IF a = <<>> THEN b
    ELSE IF b = <<>> THEN a
    ELSE
    LET n == Max(Len(a), Len(b)) + 1
        s == SubSeq([i \in 1..n |-> LimbAt(a, i) + LimbAt(b, i)], 1, n)
        \* a limb below i overflows and every limb between passes it on
        carry(i) == IF \E j \in 1..(i - 1) :
                          /\ s[j] >= LimbBase
                          /\ \A k \in (j + 1)..(i - 1) : s[k] = LimbBase - 1
                    THEN 1 ELSE 0
    IN  Trim([i \in 1..n |-> (s[i] + carry(i)) % LimbBase])

\* a - b for a >= b
NatSub(a, b) ==
    IF b = <<>> THEN a
    ELSE
    LET borrow(i) == IF \E j \in 1..(i - 1) :
                           /\ a[j] < LimbAt(b, j)
                           /\ \A k \in (j + 1)..(i - 1) : a[k] = LimbAt(b, k)
                     THEN 1 ELSE 0
    IN  Trim([i \in 1..Len(a) |->
                (a[i] - LimbAt(b, i) - borrow(i) + LimbBase) % LimbBase])

\* -1, 0 or 1 as a < b, a = b or a > b
NatCmp(a, b) ==
    LET differ == {i \in 1..Len(a) : a[i] # LimbAt(b, i)}
    IN  IF Len(a) # Len(b) THEN (IF Len(a) < Len(b) THEN 0 - 1 ELSE 1)
        ELSE IF differ = {} THEN 0
        ELSE IF a[MaxOf(differ)] < b[MaxOf(differ)] THEN 0 - 1 ELSE 1

\* a * m for one limb m
MulLimb(a, m) ==
    IF a = <<>> \/ m = 0 THEN <<>>
    ELSE
    NatAdd(Trim([i \in 1..Len(a) |-> (a[i] * m) % LimbBase]),
           Trim([i \in 1..(Len(a) + 1) |->
                   IF i = 1 THEN 0 ELSE (a[i - 1] * m) \div LimbBase]))

\* the low (part = 0) or high (part = 1) halves of the limb products
\* a[i] * b[k + 1 - i] of column k, summed over i in lo..hi
RECURSIVE ColumnFrom(_, _, _, _, _, _)
ColumnFrom(a, b, k, part, lo, hi) ==
    IF lo > hi THEN 0
    ELSE (IF part = 0 THEN (a[lo] * b[k + 1 - lo]) % LimbBase
          ELSE (a[lo] * b[k + 1 - lo]) \div LimbBase)
         + ColumnFrom(a, b, k, part, lo + 1, hi)

Column(a, b, k, part) ==
    ColumnFrom(a, b, k, part, Max(1, k + 1 - Len(b)), Min(Len(a), k))

NatMul(a, b) ==
    IF a = <<>> \/ b = <<>> THEN <<>>
    ELSE
    LET n == Len(a) + Len(b) + 1
        \* column k holds the low halves of its own products and the high
        \* halves of the column below
        d == SubSeq([k \in 1..n |->
                       Column(a, b, k, 0) + Column(a, b, k - 1, 1)], 1, n)
    IN  NatAdd(Trim([k \in 1..n |-> d[k] % LimbBase]),
               Trim([k \in 1..n |->
                       IF k = 1 THEN 0 ELSE d[k - 1] \div LimbBase]))

NatShl(a, k) ==
    IF a = <<>> THEN a
    ELSE
    LET w == k \div 15
        r == k % 15
    IN  Trim([i \in 1..(Len(a) + w + 1) |->
                IF i <= w THEN 0
                ELSE (LimbAt(a, i - w) % Pow2(15 - r)) * Pow2(r)
                     + (LimbAt(a, i - w - 1) \div Pow2(15 - r))])

NatShr(a, k) ==
    LET w == k \div 15
        r == k % 15
    IN  IF w >= Len(a) THEN <<>>
        ELSE Trim([i \in 1..(Len(a) - w) |->
                    (a[i + w] \div Pow2(r))
                    + (LimbAt(a, i + w + 1) % Pow2(r)) * Pow2(15 - r)])

BitLenLimb(x) == Cardinality({n \in 0..14 : Pow2(n) <= x})

BitLen(a) == IF a = <<>> THEN 0 ELSE 15 * (Len(a) - 1) + BitLenLimb(a[Len(a)])

TestBit(a, i) == (LimbAt(a, (i \div 15) + 1) \div Pow2(i % 15)) % 2

\* are the k lowest bits of a all zero
LowBitsZero(a, k) == NatShl(NatShr(a, k), k) = a

\* the largest digit d with b * d <= r, for r < b * LimbBase and a divisor
\* whose highest limb is at least LimbBase / 2: the two highest limbs of r
\* over the highest of b overshoot it by at most two
Digit(r, b) ==
    LET n == Len(b)
        est == Min(LimbBase - 1,
                   (LimbAt(r, n + 1) * LimbBase + LimbAt(r, n)) \div b[n])
    IN  MaxOf({d \in Max(0, est - 2)..est : NatCmp(MulLimb(b, d), r) <= 0})

\* long division, one limb of a at a time from the highest down to limb i:
\* <<quotient, remainder>>
RECURSIVE DivFrom(_, _, _)
DivFrom(a, b, i) ==
    IF i > Len(a) - Len(b) + 1
    THEN <<<<>>, Trim(SubSeq(a, i, Len(a)))>>
    ELSE LET above == DivFrom(a, b, i + 1)
         IN  IF above[2] = <<>> /\ a[i] = 0   \* nothing to divide yet
             THEN <<<<0>> \o above[1], <<>>>>
             ELSE LET r == Trim(<<a[i]>> \o above[2])
                      d == Digit(r, b)
                  IN  <<<<d>> \o above[1], NatSub(r, MulLimb(b, d))>>

\* the quotient and the remainder of operands shifted up by `up` bits
Unshifted(qr, up) == <<Trim(qr[1]), NatShr(qr[2], up)>>

\* the shift that brings the highest limb of b to LimbBase / 2 or above
Normalising(b) == (15 - (BitLen(b) % 15)) % 15

DivShifted(a, b, up) == Unshifted(DivFrom(NatShl(a, up), NatShl(b, up), 1), up)

\* <<a div b, a mod b>> for b > 0
NatDivMod(a, b) ==
    IF a = <<>> THEN <<a, a>> ELSE DivShifted(a, b, Normalising(b))

-----------------------------------------------------------------------------
(* IEEE 754 binary64 arithmetic, round to nearest, ties to even.  A finite *)
(* f64 is (-1)^sign * man * 2^exp with man below 2^53; man has 53 bits     *)
(* unless the value is subnormal (exp = -1074) or zero.                    *)

F64Zero(sign) == [kind |-> "fin", sign |-> sign, man |-> <<>>, exp |-> 0]

F64Inf(sign) == [kind |-> "inf", sign |-> sign, man |-> <<>>, exp |-> 0]

F64NaN == [kind |-> "nan", sign |-> 0, man |-> <<>>, exp |-> 0]

\* (-1)^sign * man * 2^e for a significand that fits: zero, a finite value
\* or, past the largest exponent, infinity
Pack(sign, man, e) ==
    IF man = <<>> THEN F64Zero(sign)
    ELSE IF e > 971 THEN F64Inf(sign)
    ELSE [kind |-> "fin", sign |-> sign, man |-> man, exp |-> e]

\* a rounded significand that has grown to 54 bits is 2^53
RoundCarry(sign, man, e) ==
    IF BitLen(man) > MantBits THEN Pack(sign, NatShr(man, 1), e + 1)
    ELSE Pack(sign, man, e)

\* to nearest, ties to even: up when the first dropped bit is set and
\* either a lower one is or the kept significand is odd
RoundsUp(m, kept, drop) ==
    /\ TestBit(m, drop - 1) = 1
    /\ (TestBit(kept, 0) = 1 \/ ~LowBitsZero(m, drop - 1))

RoundKept(sign, m, e, drop, kept) ==
    RoundCarry(sign,
               IF RoundsUp(m, kept, drop) THEN NatAdd(kept, NatOf(1)) ELSE kept,
               e + drop)

\* drop bits are lost; with none to lose the significand is shifted up to
\* 53 bits as far as the smallest exponent allows
RoundDrop(sign, m, e, drop) ==
    IF drop <= 0 THEN Pack(sign, NatShl(m, 0 - drop), e + drop)
    ELSE RoundKept(sign, m, e, drop, NatShr(m, drop))

\* the f64 nearest to (-1)^sign * m * 2^e
RoundF64(sign, m, e) ==
    IF m = <<>> THEN F64Zero(sign)
    ELSE RoundDrop(sign, m, e, Max(BitLen(m) - MantBits, (0 - 1074) - e))

\* m * 2^e as an f64 (m a small natural number)
Dyadic(m, e) == RoundF64(0, NatOf(m), e)

\* `n as f64` for an unsigned n
CastToF64(n) == RoundF64(0, NatOf(n), 0)

\* the f64 of a whole number of either sign
WholeF64(k) == IF k < 0 THEN RoundF64(1, NatOf(0 - k), 0) ELSE CastToF64(k)

IsZeroF64(x) == x.kind = "fin" /\ x.man = <<>>

NegF64(x) == [x EXCEPT !.sign = 1 - x.sign]

AbsF64(x) == [x EXCEPT !.sign = 0]

\* -1, 0, 1 comparing the magnitudes of two finite values
CmpMag(a, b) ==
    IF a.man = <<>> \/ b.man = <<>>
    THEN (IF a.man = <<>> THEN 0 ELSE 1) - (IF b.man = <<>> THEN 0 ELSE 1)
    ELSE IF a.exp < b.exp THEN 0 - 1
    ELSE IF a.exp > b.exp THEN 1
    ELSE NatCmp(a.man, b.man)

\* -1, 0, 1 comparing two values that are not NaN
CmpF64(a, b) ==
    LET key(x) == IF x.kind = "inf" THEN (IF x.sign = 1 THEN 0 - 2 ELSE 2)
                  ELSE IF x.man = <<>> THEN 0
                  ELSE IF x.sign = 1 THEN 0 - 1 ELSE 1
        ka == key(a)
        kb == key(b)
    IN  IF ka < kb THEN 0 - 1
        ELSE IF ka > kb THEN 1
        ELSE IF ka = 1 THEN CmpMag(a, b)
        ELSE IF ka = 0 - 1 THEN 0 - CmpMag(a, b)
        ELSE 0

LtF64(a, b) == a.kind # "nan" /\ b.kind # "nan" /\ CmpF64(a, b) < 0

LeF64(a, b) == a.kind # "nan" /\ b.kind # "nan" /\ CmpF64(a, b) <= 0

EqF64(a, b) == a.kind # "nan" /\ b.kind # "nan" /\ CmpF64(a, b) = 0

\* finite and not zero
Ordinary(x) == x.kind = "fin" /\ x.man # <<>>

\* (-1)^sb * mb + (-1)^ss * ms, times 2^e
SumMan(sb, mb, ss, ms, e) ==
    IF sb # ss /\ mb = ms THEN F64Zero(0)
    ELSE RoundF64(IF sb = ss \/ NatCmp(mb, ms) > 0 THEN sb ELSE ss,
                  IF sb = ss THEN NatAdd(mb, ms)
                  ELSE IF NatCmp(mb, ms) > 0 THEN NatSub(mb, ms)
                  ELSE NatSub(ms, mb),
                  e)

\* big.exp >= small.exp; a term more than 56 binary places below only
\* decides the rounding direction
SumAligned(big, small) ==
    LET far == big.exp - small.exp > MantBits + 3
    IN  SumMan(big.sign,
               NatShl(big.man, IF far THEN 3 ELSE big.exp - small.exp),
               small.sign,
               IF far THEN NatOf(1) ELSE small.man,
               IF far THEN big.exp - 3 ELSE small.exp)

SumF64(a, b) ==
    IF Ordinary(a) /\ Ordinary(b)
    THEN SumAligned(IF a.exp >= b.exp THEN a ELSE b,
                    IF a.exp >= b.exp THEN b ELSE a)
    ELSE IF a.kind = "nan" \/ b.kind = "nan" THEN F64NaN
    ELSE IF a.kind = "inf"
    THEN IF b.kind = "inf" /\ b.sign # a.sign THEN F64NaN ELSE a
    ELSE IF b.kind = "inf" THEN b
    ELSE IF a.man = <<>> /\ b.man = <<>>
    THEN F64Zero(IF a.sign = 1 /\ b.sign = 1 THEN 1 ELSE 0)
    ELSE IF a.man = <<>> THEN b
    ELSE a

DiffF64(a, b) == SumF64(a, NegF64(b))

ProdF64(a, b) ==
    IF a.kind = "fin" /\ b.kind = "fin"
    THEN RoundF64((a.sign + b.sign) % 2, NatMul(a.man, b.man), a.exp + b.exp)
    ELSE IF a.kind = "nan" \/ b.kind = "nan" THEN F64NaN
    ELSE IF IsZeroF64(a) \/ IsZeroF64(b) THEN F64NaN
    ELSE F64Inf((a.sign + b.sign) % 2)

\* a quotient with one more bit that says whether anything is left over
QuotSticky(sign, qr, e) ==
    RoundF64(sign,
             IF qr[2] = <<>> THEN NatShl(qr[1], 1)
             ELSE NatAdd(NatShl(qr[1], 1), NatOf(1)),
             e - 1)

\* the dividend shifted up by s bits for a quotient of 56 bits or more
QuotShifted(a, b, s) ==
    QuotSticky((a.sign + b.sign) % 2, NatDivMod(NatShl(a.man, s), b.man),
               a.exp - b.exp - s)

QuotF64(a, b) ==
    IF Ordinary(a) /\ Ordinary(b)
    THEN QuotShifted(a, b,
                     MantBits + 3 + Max(0, BitLen(b.man) - BitLen(a.man)))
    ELSE IF a.kind = "nan" \/ b.kind = "nan" THEN F64NaN
    ELSE IF a.kind = "inf"
    THEN IF b.kind = "inf" THEN F64NaN ELSE F64Inf((a.sign + b.sign) % 2)
    ELSE IF b.kind = "inf" THEN F64Zero((a.sign + b.sign) % 2)
    ELSE IF b.man = <<>>
    THEN IF a.man = <<>> THEN F64NaN ELSE F64Inf((a.sign + b.sign) % 2)
    ELSE F64Zero((a.sign + b.sign) % 2)

F64One == [kind |-> "fin", sign |-> 0, man |-> <<0, 0, 0, 128>>, exp |-> 0 - 52]

\* b / 2 of an i32, rounded towards zero
HalfI32(b) == IF b < 0 THEN (b + (b % 2)) \div 2 ELSE b \div 2

\* the loop of f64::powi(self, n) as the compiler runtime computes it
\* (__powidf2): square and multiply from the lowest bit of n up.  With bits
\* of n left, a NaN in the square or in the product is the result.
RECURSIVE PowiFrom(_, _, _)
PowiFrom(a, b, r) ==
    IF b = 0 THEN r
    ELSE IF a.kind = "nan" \/ r.kind = "nan" THEN F64NaN
    ELSE PowiFrom(ProdF64(a, a), HalfI32(b),
                  IF b % 2 = 1 THEN ProdF64(r, a) ELSE r)

\* f64::powi(self, n: i32): the product by squaring, and its reciprocal for
\* a negative exponent
Powi(a, b) ==
    IF b < 0 THEN QuotF64(F64One, PowiFrom(a, b, F64One))
    ELSE PowiFrom(a, b, F64One)

\* `n as i32` of a usize n: the low 32 bits in two's complement
AsI32(n) ==
    LET low == LimbAt(n, 1) + LimbBase * LimbAt(n, 2)
                   + LimbBase * LimbBase * (LimbAt(n, 3) % 2)
    IN  IF (LimbAt(n, 3) \div 2) % 2 = 1 THEN (low - 2147483647) - 1 ELSE low

\* the value of a natural number of fewer than 31 bits
NatToInt(m) ==
    LimbAt(m, 1) + LimbBase * LimbAt(m, 2) + LimbBase * LimbBase * LimbAt(m, 3)

\* usize::MAX on a target of 64 bits, in limbs
UsizeMax == NatSub(NatShl(NatOf(1), 64), NatOf(1))

\* the integer part of the magnitude of a finite x
TruncMag(x) ==
    IF x.man = <<>> THEN <<>>
    ELSE IF x.exp >= 0 THEN NatShl(x.man, x.exp)
    ELSE NatShr(x.man, 0 - x.exp)

\* `x as usize`, a natural number in limbs: NaN is 0, a negative value is
\* 0, the fraction is dropped, and a value from 2^64 on, infinity included,
\* is usize::MAX
AsUsize(x) ==
    IF x.kind = "nan" THEN <<>>
    ELSE IF x.sign = 1 THEN <<>>
    ELSE IF x.kind = "inf" THEN UsizeMax
    ELSE IF x.exp > 64 THEN UsizeMax
    ELSE IF BitLen(TruncMag(x)) > 64 THEN UsizeMax
    ELSE TruncMag(x)

\* the largest count the integers of the model hold: 2^31 - 1
CountMax == NatToInt(NatSub(NatShl(NatOf(1), 31), NatOf(1)))

\* a count in limbs as an integer of the model; every count from 2^31 - 1
\* on, above all trial counts at hand, is CountMax
CountOf(w) == IF BitLen(w) > 31 THEN CountMax ELSE NatToInt(w)

\* `x as usize` as an integer of the model
AsCount(x) == CountOf(AsUsize(x))

\* the integer square root, by Newton's iteration from above
RECURSIVE SqrtFrom(_, _)
SqrtStep(n, x, y) == IF NatCmp(y, x) >= 0 THEN x ELSE SqrtFrom(n, y)

SqrtFrom(n, x) ==
    SqrtStep(n, x, NatShr(NatAdd(x, NatDivMod(n, x)[1]), 1))

\* the whole root of t < 2^30 by Newton's iteration from a guess above it
RECURSIVE IntSqrtFrom(_, _)
IntSqrtFrom(t, g) ==
    IF (g + (t \div g)) \div 2 >= g THEN g
    ELSE IntSqrtFrom(t, (g + (t \div g)) \div 2)

\* a first guess above the root: the root of the highest 30 bits, plus
\* one, back in place
SqrtGuess(n, sh) ==
    NatShl(NatOf(IntSqrtFrom(NatToInt(NatShr(n, sh)), LimbBase) + 1),
           sh \div 2)

NatSqrt(n) ==
    IF n = <<>> THEN n
    ELSE SqrtFrom(n, SqrtGuess(n, 2 * (Max(0, BitLen(n) - 29) \div 2)))

\* the root r of n with one more bit that says whether r * r falls short
SqrtSticky(n, r, e) ==
    RoundF64(0,
             IF NatMul(r, r) = n THEN NatShl(r, 1)
             ELSE NatAdd(NatShl(r, 1), NatOf(1)),
             e - 1)

SqrtMan(n, e) == SqrtSticky(n, NatSqrt(n), e)

\* the significand shifted up by s bits, s with an even exponent left
SqrtShifted(x, s) == SqrtMan(NatShl(x.man, s), (x.exp - s) \div 2)

\* f64::sqrt, correctly rounded
SqrtF64(x) ==
    IF x.kind = "nan" THEN F64NaN
    ELSE IF x.kind = "fin" /\ x.man = <<>> THEN x
    ELSE IF x.sign = 1 THEN F64NaN
    ELSE IF x.kind = "inf" THEN x
    ELSE SqrtShifted(x, 2 * (MantBits + 3) - BitLen(x.man)
                        + ((x.exp + BitLen(x.man)) % 2))

\* f64::recip
RecipF64(x) == QuotF64(F64One, x)

\* f64::floor
FloorF64(x) ==
    IF x.kind # "fin" \/ x.man = <<>> \/ x.exp >= 0 THEN x
    ELSE LET t == TruncMag(x)
             whole == NatShl(t, 0 - x.exp) = x.man
         IN  IF x.sign = 0 THEN RoundF64(0, t, 0)
             ELSE IF whole THEN RoundF64(1, t, 0)
             ELSE RoundF64(1, NatAdd(t, NatOf(1)), 0)

\* f64::trunc
TruncF64(x) ==
    IF x.kind # "fin" \/ x.man = <<>> \/ x.exp >= 0 THEN x
    ELSE RoundF64(x.sign, TruncMag(x), 0)

\* an f64 literal of the source, as its significand and exponent
F64Lit(man, exp) == [kind |-> "fin", sign |-> 0, man |-> man, exp |-> exp]

\* const A: [f64; 8]
GaussianA == <<
    F64Lit(<<28533, 15677, 25444, 216>>, 0 - 51),  \* 3.3871328727963666080e+00
    F64Lit(<<17262, 5684, 4642, 133>>, 0 - 45),  \* 1.3314166789178437745e+02
    F64Lit(<<16588, 17447, 14708, 246>>, 0 - 42),  \* 1.9715909503065514427e+03
    F64Lit(<<26397, 6813, 18275, 214>>, 0 - 39),  \* 1.3731693765509461125e+04
    F64Lit(<<29994, 3382, 12538, 179>>, 0 - 37),  \* 4.5921953931549871457e+04
    F64Lit(<<3872, 11119, 12401, 131>>, 0 - 36),  \* 6.7265770927008700853e+04
    F64Lit(<<17892, 22108, 19273, 130>>, 0 - 37),  \* 3.3430575583588128105e+04
    F64Lit(<<4702, 24315, 26789, 156>>, 0 - 41)   \* 2.5090809287301226727e+03
    >>

\* const B: [f64; 8]
GaussianB == <<
    F64Lit(<<0, 0, 0, 128>>, 0 - 52),  \* 1.0000000000000000000e+00
    F64Lit(<<6837, 28892, 8300, 169>>, 0 - 47),  \* 4.2313330701600911252e+01
    F64Lit(<<13303, 31633, 26107, 171>>, 0 - 43),  \* 6.8718700749205790830e+02
    F64Lit(<<18591, 23787, 18632, 168>>, 0 - 40),  \* 5.3941960214247511077e+03
    F64Lit(<<21094, 11180, 24011, 165>>, 0 - 38),  \* 2.1213794301586595867e+04
    F64Lit(<<29886, 21705, 17906, 153>>, 0 - 37),  \* 3.9307895800092710610e+04
    F64Lit(<<11894, 31075, 14613, 224>>, 0 - 38),  \* 2.8729085735721942674e+04
    F64Lit(<<19305, 5424, 10747, 163>>, 0 - 40)   \* 5.2264952788528545610e+03
    >>

\* const C: [f64; 8]
GaussianC == <<
    F64Lit(<<21098, 31698, 6551, 182>>, 0 - 52),  \* 1.42343711074968357734e+00
    F64Lit(<<12699, 4501, 5597, 148>>, 0 - 50),  \* 4.63033784615654529590e+00
    F64Lit(<<9578, 10436, 20444, 184>>, 0 - 50),  \* 5.76949722146069140550e+00
    F64Lit(<<708, 13434, 15148, 233>>, 0 - 51),  \* 3.64784832476320460504e+00
    F64Lit(<<30130, 4262, 20272, 162>>, 0 - 52),  \* 1.27045825245236838258e+00
    F64Lit(<<23607, 29552, 19118, 247>>, 0 - 55),  \* 2.41780725177450611770e-01
    F64Lit(<<27751, 22667, 5037, 186>>, 0 - 58),  \* 2.27238449892691845833e-02
    F64Lit(<<11497, 367, 1387, 203>>, 0 - 63)   \* 7.74545014278341407640e-04
    >>

\* const D: [f64; 8]
GaussianD == <<
    F64Lit(<<0, 0, 0, 128>>, 0 - 52),  \* 1.00000000000000000000e+00
    F64Lit(<<9289, 30349, 13246, 131>>, 0 - 51),  \* 2.05319162663775882187e+00
    F64Lit(<<26163, 19620, 18915, 214>>, 0 - 52),  \* 1.67638483018380384940e+00
    F64Lit(<<1481, 25703, 19019, 176>>, 0 - 53),  \* 6.89767334985100004550e-01
    F64Lit(<<28736, 26409, 21576, 151>>, 0 - 55),  \* 1.48103976427480074590e-01
    F64Lit(<<6079, 32086, 489, 249>>, 0 - 59),  \* 1.51986665636164571966e-02
    F64Lit(<<10024, 32702, 17970, 143>>, 0 - 63),  \* 5.47593808499534494600e-04
    F64Lit(<<14820, 20680, 13565, 144>>, 0 - 82)   \* 1.05075007164441684324e-09
    >>

\* const E: [f64; 8]
GaussianE == <<
    F64Lit(<<25894, 637, 1735, 213>>, 0 - 50),  \* 6.65790464350110377720e+00
    F64Lit(<<20483, 23822, 27561, 174>>, 0 - 50),  \* 5.46378491116411436990e+00
    F64Lit(<<9285, 3135, 15001, 228>>, 0 - 52),  \* 1.78482653991729133580e+00
    F64Lit(<<21967, 25252, 27492, 151>>, 0 - 54),  \* 2.96560571828504891230e-01
    F64Lit(<<20199, 12918, 11524, 217>>, 0 - 58),  \* 2.65321895265761230930e-02
    F64Lit(<<21317, 4228, 28772, 162>>, 0 - 62),  \* 1.24266094738807843860e-03
    F64Lit(<<24618, 6323, 15131, 227>>, 0 - 68),  \* 2.71155556874348757815e-05
    F64Lit(<<16275, 11559, 28115, 215>>, 0 - 75)   \* 2.01033439929228813265e-07
    >>

\* const F: [f64; 8]
GaussianF == <<
    F64Lit(<<0, 0, 0, 128>>, 0 - 52),  \* 1.00000000000000000000e+00
    F64Lit(<<22399, 8079, 18253, 153>>, 0 - 53),  \* 5.99832206555887937690e-01
    F64Lit(<<17403, 12392, 7084, 140>>, 0 - 55),  \* 1.36929880922735805310e-01
    F64Lit(<<17962, 25642, 23524, 243>>, 0 - 59),  \* 1.48753612908506148525e-02
    F64Lit(<<17879, 12091, 8946, 206>>, 0 - 63),  \* 7.86869131145613259100e-04
    F64Lit(<<29887, 4806, 28849, 154>>, 0 - 68),  \* 1.84631831751005468180e-05
    F64Lit(<<14816, 28289, 20763, 152>>, 0 - 75),  \* 1.42151175831644588870e-07
    F64Lit(<<16784, 25585, 9983, 147>>, 0 - 101)   \* 2.04426310338993978564e-15
    >>

\* const CONST1: f64 = 0.180625
CONST1 == F64Lit(<<1311, 9175, 31457, 184>>, 0 - 55)

\* const CONST2: f64 = 1.6
CONST2 == F64Lit(<<6554, 13107, 26214, 204>>, 0 - 52)

\* const SPLIT1: f64 = 0.425
SPLIT1 == F64Lit(<<13107, 26214, 19660, 217>>, 0 - 54)

\* const SPLIT2: f64 = 5.0
SPLIT2 == F64Lit(<<0, 0, 0, 160>>, 0 - 50)

\* const ALPHA: f64 = 0.999
ALPHA == F64Lit(<<1835, 12845, 24379, 255>>, 0 - 53)
-----------------------------------------------------------------------------
(* The math library: f64::ln, f64::exp and f64::powf where the result is   *)
(* fixed exactly, and at the other arguments the model reaches the value  *)
(* the library returns there.                                              *)

\* const in `u < 1.0 - 0.0331 * x * x`
SQUEEZE == F64Lit(<<17773, 26109, 18926, 135>>, 0 - 57)

\* <<x, x.ln()>>
LnKnown == {
    <<F64Lit(<<30224, 24564, 16931, 223>>, 0 - 59),
      NegF64(F64Lit(<<15943, 18581, 13971, 137>>, 0 - 50))>>,  \* ln(0.0136423776851258) = -4.294574324666946
    <<F64Lit(<<26670, 24632, 30490, 247>>, 0 - 59),
      NegF64(F64Lit(<<25951, 25911, 3577, 134>>, 0 - 50))>>,  \* ln(0.01513247704456341) = -4.190912047162185
    <<F64Lit(<<29496, 8917, 131, 251>>, 0 - 54),
      NegF64(F64Lit(<<9815, 7907, 16091, 182>>, 0 - 53))>>,  \* ln(0.49024219943003144) = -0.7128557254447497
    <<F64Lit(<<4145, 28987, 24882, 188>>, 0 - 53),
      NegF64(F64Lit(<<2542, 6586, 284, 156>>, 0 - 54))>>,  \* ln(0.7373412709971544) = -0.30470443969912153
    <<F64Lit(<<11616, 28616, 31437, 216>>, 0 - 53),
      NegF64(F64Lit(<<2787, 29046, 14364, 169>>, 0 - 55))>>,  \* ln(0.8474976865412991) = -0.16546716947603732
    <<F64Lit(<<3658, 20651, 6541, 231>>, 0 - 53),
      NegF64(F64Lit(<<3368, 8733, 22373, 208>>, 0 - 56))>>,  \* ln(0.9031235730912581) = -0.10189588765074531
    <<F64Lit(<<0, 0, 0, 128>>, 0 - 89),
      NegF64(F64Lit(<<21245, 28066, 5621, 205>>, 0 - 48))>>,  \* ln(7.275957614183426e-12) = -25.646445680717978
    <<F64Lit(<<0, 0, 0, 128>>, 0 - 88),
      NegF64(F64Lit(<<301, 15795, 20525, 199>>, 0 - 48))>>,  \* ln(1.4551915228366852e-11) = -24.95329850015803
    <<F64Lit(<<20046, 16230, 13969, 195>>, 0 - 59),
      NegF64(F64Lit(<<8399, 8492, 23726, 141>>, 0 - 50))>>,  \* ln(0.01192787568144307) = -4.428877123988243
    <<F64Lit(<<1024, 8322, 1040, 130>>, 0 - 58),
      NegF64(F64Lit(<<6175, 20934, 19015, 132>>, 0 - 50))>>,  \* ln(0.015873015873015817) = -4.143134726391536
    <<F64Lit(<<0, 0, 0, 128>>, 0 - 57),
      NegF64(F64Lit(<<18539, 32113, 26446, 221>>, 0 - 51))>>,  \* ln(0.03125) = -3.4657359027997265
    <<F64Lit(<<28938, 4686, 15778, 182>>, 0 - 57),
      NegF64(F64Lit(<<217, 29127, 3653, 199>>, 0 - 51))>>,  \* ln(0.044551150076332105) = -3.1111173099926472
    <<F64Lit(<<0, 0, 0, 128>>, 0 - 56),
      NegF64(F64Lit(<<14831, 32244, 14603, 177>>, 0 - 51))>>,  \* ln(0.0625) = -2.772588722239781
    <<F64Lit(<<13104, 26214, 19660, 153>>, 0 - 56),
      NegF64(F64Lit(<<28809, 31671, 25463, 165>>, 0 - 51))>>,  \* ln(0.07499999999999996) = -2.590267165445827
    <<F64Lit(<<10142, 32109, 8407, 167>>, 0 - 56),
      NegF64(F64Lit(<<32042, 8172, 10674, 160>>, 0 - 51))>>,  \* ln(0.08166825741378012) = -2.505089878759141
    <<F64Lit(<<25622, 24605, 15977, 240>>, 0 - 56),
      NegF64(F64Lit(<<18762, 21806, 2779, 137>>, 0 - 51))>>,  \* ln(0.11742558704180825) = -2.141950447790042
    <<F64Lit(<<0, 0, 0, 128>>, 0 - 55),
      NegF64(F64Lit(<<11123, 32375, 2760, 133>>, 0 - 51))>>,  \* ln(0.125) = -2.0794415416798357
    <<F64Lit(<<9360, 9362, 9362, 146>>, 0 - 55),
      NegF64(F64Lit(<<23129, 23652, 2506, 249>>, 0 - 52))>>,  \* ln(0.1428571428571428) = -1.9459101490553137
    <<F64Lit(<<0, 0, 0, 128>>, 0 - 54),
      NegF64(F64Lit(<<14831, 32244, 14603, 177>>, 0 - 52))>>,  \* ln(0.25) = -1.3862943611198906
    <<F64Lit(<<0, 0, 0, 128>>, 0 - 53),
      NegF64(F64Lit(<<14831, 32244, 14603, 177>>, 0 - 53))>>,  \* ln(0.5) = -0.6931471805599453
    <<F64Lit(<<0, 0, 0, 224>>, 0 - 53),
      NegF64(F64Lit(<<25724, 1103, 24122, 136>>, 0 - 55))>>,  \* ln(0.875) = -0.13353139262452263
    <<F64Lit(<<0, 0, 0, 252>>, 0 - 53),
      NegF64(F64Lit(<<22599, 12582, 345, 129>>, 0 - 58))>>,  \* ln(0.984375) = -0.015748356968139168
    <<F64Lit(<<2006, 25471, 20475, 142>>, 0 - 51),
      F64Lit(<<27654, 22693, 4643, 205>>, 0 - 53)>>,  \* ln(2.2285136114669326) = 0.8013348212911076
    <<F64Lit(<<13286, 25502, 28882, 153>>, 0 - 51),
      F64Lit(<<29159, 31264, 19287, 224>>, 0 - 53)>>,  \* ln(2.404397381912065) = 0.8772993033085726
    <<F64Lit(<<5375, 11557, 28814, 170>>, 0 - 51),
      F64Lit(<<32400, 4571, 13471, 251>>, 0 - 53)>>,  \* ln(2.669989754055336) = 0.9820746349723368
    <<F64Lit(<<0, 0, 0, 192>>, 0 - 51),
      F64Lit(<<779, 30042, 20393, 140>>, 0 - 52)>>,  \* ln(3.0) = 1.0986122886681098
    <<F64Lit(<<20887, 12082, 12126, 200>>, 0 - 51),
      F64Lit(<<21381, 15611, 2759, 146>>, 0 - 52)>>,  \* ln(3.1307823032058866) = 1.141282910449463
    <<F64Lit(<<2290, 680, 2631, 134>>, 0 - 50),
      F64Lit(<<8013, 18528, 12647, 183>>, 0 - 52)>>,  \* ln(4.1900091369191035) = 1.4327029145806194
    <<F64Lit(<<23039, 24807, 4463, 134>>, 0 - 50),
      F64Lit(<<31454, 27057, 14396, 183>>, 0 - 52)>>,   \* ln(4.191756970473306) = 1.4331199707373155
    <<F64Lit(<<0, 26624, 44, 168>>, 0 - 88),
      NegF64(F64Lit(<<11742, 18225, 14773, 197>>, 0 - 48))>>,  \* ln(1.9099544211823027e-11) = -24.681356644416034
    <<F64Lit(<<0, 26624, 44, 168>>, 0 - 87),
      NegF64(F64Lit(<<23567, 5953, 29677, 191>>, 0 - 48))>>,  \* ln(3.8199088423646055e-11) = -23.98820946385609
    <<F64Lit(<<0, 28416, 38, 153>>, 0 - 86),
      NegF64(F64Lit(<<3982, 6678, 3562, 187>>, 0 - 48))>>,  \* ln(6.957688407620982e-11) = -23.388588729095822
    <<F64Lit(<<0, 28416, 38, 153>>, 0 - 85),
      NegF64(F64Lit(<<15807, 27174, 18465, 181>>, 0 - 48))>>,  \* ln(1.3915376815241964e-10) = -22.69544154853588
    <<F64Lit(<<0, 32704, 255, 128>>, 0 - 79),
      NegF64(F64Lit(<<8389, 3674, 23570, 149>>, 0 - 48))>>,  \* ln(7.451035340805268e-09) = -18.714912842290477
    <<F64Lit(<<0, 2048, 0, 128>>, 0 - 78),
      NegF64(F64Lit(<<20242, 24022, 5721, 144>>, 0 - 48))>>,  \* ln(1.490116141589226e-08) = -18.021826679657416
    <<F64Lit(<<0, 0, 128, 128>>, 0 - 78),
      NegF64(F64Lit(<<20240, 24154, 5713, 144>>, 0 - 48))>>,  \* ln(1.4901615941198543e-08) = -18.021796177446106
    <<F64Lit(<<0, 32704, 255, 128>>, 0 - 78),
      NegF64(F64Lit(<<20213, 24170, 5705, 144>>, 0 - 48))>>,  \* ln(1.4902070681610535e-08) = -18.02176566173053
    <<F64Lit(<<0, 0, 0, 128>>, 0 - 77),
      NegF64(F64Lit(<<32067, 11878, 20625, 138>>, 0 - 48))>>,  \* ln(2.9802322387695312e-08) = -17.328679513998633
    <<F64Lit(<<0, 30720, 127, 128>>, 0 - 77),
      NegF64(F64Lit(<<31936, 12010, 20617, 138>>, 0 - 48))>>,  \* ln(2.9803231438307876e-08) = -17.328649011786865
    <<F64Lit(<<29632, 29183, 2047, 128>>, 0 - 70),
      NegF64(F64Lit(<<4459, 18290, 20269, 199>>, 0 - 49))>>,  \* ln(3.816559811295592e-06) = -12.476161114064515
    <<F64Lit(<<29632, 29183, 2047, 128>>, 0 - 69),
      NegF64(F64Lit(<<28108, 26514, 17308, 188>>, 0 - 49))>>,  \* ln(7.633119622591183e-06) = -11.78301393350457
    <<F64Lit(<<14592, 6144, 2, 136>>, 0 - 69),
      NegF64(F64Lit(<<19778, 23394, 18547, 187>>, 0 - 49))>>,  \* ln(8.106235668517165e-06) = -11.722876956837926
    <<F64Lit(<<14592, 6144, 2, 136>>, 0 - 68),
      NegF64(F64Lit(<<10659, 31619, 15586, 176>>, 0 - 49))>>,  \* ln(1.621247133703433e-05) = -11.02972977627798
    <<F64Lit(<<30840, 12810, 2, 168>>, 0 - 65),
      NegF64(F64Lit(<<9106, 30326, 26989, 139>>, 0 - 49))>>,  \* ln(0.0001602173547423124) = -8.738979197472677
    <<F64Lit(<<30840, 12810, 2, 168>>, 0 - 64),
      NegF64(F64Lit(<<32755, 5782, 24029, 128>>, 0 - 49))>>,  \* ln(0.0003204347094846248) = -8.045832016912732
    <<F64Lit(<<31732, 6477, 1, 222>>, 0 - 64),
      NegF64(F64Lit(<<21501, 14779, 17950, 248>>, 0 - 50))>>,  \* ln(0.00042343146619921936) = -7.767118884124099
    <<F64Lit(<<7910, 14467, 672, 138>>, 0 - 63),
      NegF64(F64Lit(<<5788, 2851, 18871, 241>>, 0 - 50))>>,  \* ln(0.0005265065051504841) = -7.549246871005064
    <<F64Lit(<<220, 10907, 10641, 180>>, 0 - 63),
      NegF64(F64Lit(<<1383, 31233, 670, 233>>, 0 - 50))>>,  \* ln(0.0006878843220015324) = -7.281889870793157
    <<F64Lit(<<31732, 6477, 1, 222>>, 0 - 63),
      NegF64(F64Lit(<<3263, 31229, 12028, 226>>, 0 - 50))>>,  \* ln(0.0008468629323984387) = -7.073971703564154
    <<F64Lit(<<7910, 14467, 672, 138>>, 0 - 62),
      NegF64(F64Lit(<<20318, 19300, 12949, 219>>, 0 - 50))>>,  \* ln(0.0010530130103009682) = -6.856099690445118
    <<F64Lit(<<220, 10907, 10641, 180>>, 0 - 62),
      NegF64(F64Lit(<<15913, 14914, 27517, 210>>, 0 - 50))>>,  \* ln(0.0013757686440030647) = -6.588742690233212
    <<F64Lit(<<25764, 2689, 25562, 133>>, 0 - 61),
      NegF64(F64Lit(<<20390, 30531, 6980, 198>>, 0 - 50))>>,  \* ln(0.002041322217362822) = -6.194157535315673
    <<F64Lit(<<25764, 2689, 25562, 133>>, 0 - 60),
      NegF64(F64Lit(<<2152, 14213, 1059, 176>>, 0 - 50))>>,  \* ln(0.004082644434725644) = -5.501010354755728
    <<F64Lit(<<31729, 27768, 15872, 255>>, 0 - 59),
      NegF64(F64Lit(<<30823, 382, 4875, 133>>, 0 - 50))>>,  \* ln(0.01559353032604169) = -4.16089917343752
    <<F64Lit(<<30777, 15966, 1151, 128>>, 0 - 58),
      NegF64(F64Lit(<<7023, 5102, 2473, 133>>, 0 - 50))>>,  \* ln(0.01562928962436436) = -4.158608585078453
    <<F64Lit(<<31729, 27768, 15872, 255>>, 0 - 58),
      NegF64(F64Lit(<<25170, 896, 30675, 221>>, 0 - 51))>>,  \* ln(0.03118706065208338) = -3.4677519928775746
    <<F64Lit(<<30777, 15966, 1151, 128>>, 0 - 57),
      NegF64(F64Lit(<<10339, 10335, 25871, 221>>, 0 - 51))>>,  \* ln(0.03125857924872872) = -3.4654614045185084
    <<F64Lit(<<2272, 13305, 11856, 230>>, 0 - 57),
      NegF64(F64Lit(<<29068, 15456, 6532, 184>>, 0 - 51))>>,  \* ln(0.056240680858779646) = -2.8781149252446934
    <<F64Lit(<<13040, 14082, 2735, 174>>, 0 - 56),
      NegF64(F64Lit(<<26714, 30257, 25079, 157>>, 0 - 51))>>,  \* ln(0.08500169857979833) = -2.4650840393997386
    <<F64Lit(<<9104, 17246, 3144, 218>>, 0 - 56),
      NegF64(F64Lit(<<5069, 13290, 11133, 143>>, 0 - 51))>>,  \* ln(0.10649216959349261) = -2.23968382147948
    <<F64Lit(<<14336, 24608, 255, 128>>, 0 - 55),
      NegF64(F64Lit(<<28398, 3814, 2633, 133>>, 0 - 51))>>,  \* ln(0.1250076219734524) = -2.0793805677511648
    <<F64Lit(<<23060, 28668, 8867, 133>>, 0 - 55),
      NegF64(F64Lit(<<28119, 19418, 16441, 130>>, 0 - 51))>>,  \* ln(0.13014709576664585) = -2.039089962299595
    <<F64Lit(<<20824, 8038, 9236, 146>>, 0 - 55),
      NegF64(F64Lit(<<13491, 282, 2617, 249>>, 0 - 52))>>,  \* ln(0.14285338656066915) = -1.9459364434763244
    <<F64Lit(<<8792, 16052, 9320, 146>>, 0 - 55),
      NegF64(F64Lit(<<6407, 9612, 2543, 249>>, 0 - 52))>>,  \* ln(0.1428558972441063) = -1.9459188683845825
    <<F64Lit(<<28176, 8894, 14593, 160>>, 0 - 55),
      NegF64(F64Lit(<<31889, 22503, 8203, 237>>, 0 - 52))>>,  \* ln(0.15668491338043156) = -1.853518411342325
    <<F64Lit(<<32357, 4423, 16661, 164>>, 0 - 55),
      NegF64(F64Lit(<<10038, 2174, 1614, 234>>, 0 - 52))>>,  \* ln(0.16065279051689454) = -1.8285098234068307
    <<F64Lit(<<14490, 6085, 9887, 169>>, 0 - 55),
      NegF64(F64Lit(<<19695, 12393, 12223, 230>>, 0 - 52))>>,  \* ln(0.16533372359612458) = -1.7997892804676743
    <<F64Lit(<<7123, 19703, 7148, 225>>, 0 - 55),
      NegF64(F64Lit(<<8240, 17995, 27639, 193>>, 0 - 52))>>,  \* ln(0.21993960742039906) = -1.514402282040475
    <<F64Lit(<<12272, 0, 32575, 255>>, 0 - 55),
      NegF64(F64Lit(<<21033, 15896, 14700, 177>>, 0 - 52))>>,  \* ln(0.2499942481521198) = -1.3863173687760855
    <<F64Lit(<<24576, 1, 32704, 255>>, 0 - 55),
      NegF64(F64Lit(<<18928, 32247, 14635, 177>>, 0 - 52))>>,  \* ln(0.2499980926529588) = -1.3863019905371594
    <<F64Lit(<<14336, 24608, 255, 128>>, 0 - 54),
      NegF64(F64Lit(<<16612, 7891, 14348, 177>>, 0 - 52))>>,  \* ln(0.2500152439469048) = -1.3862333871912194
    <<F64Lit(<<23060, 28668, 8867, 133>>, 0 - 54),
      NegF64(F64Lit(<<16055, 6331, 9197, 172>>, 0 - 52))>>,  \* ln(0.2602941915332917) = -1.3459427817396497
    <<F64Lit(<<27474, 1996, 5844, 145>>, 0 - 54),
      NegF64(F64Lit(<<15317, 31464, 10691, 161>>, 0 - 52))>>,  \* ln(0.28355145817629535) = -1.2603616619633062
    <<F64Lit(<<32357, 4423, 16661, 164>>, 0 - 54),
      NegF64(F64Lit(<<2623, 2436, 10696, 145>>, 0 - 52))>>,  \* ln(0.3213055810337891) = -1.1353626428468855
    <<F64Lit(<<14490, 6085, 9887, 169>>, 0 - 54),
      NegF64(F64Lit(<<12279, 12655, 21305, 141>>, 0 - 52))>>,  \* ln(0.33066744719224916) = -1.1066420999077289
    <<F64Lit(<<14568, 3660, 21731, 170>>, 0 - 54),
      NegF64(F64Lit(<<11715, 19133, 20479, 140>>, 0 - 52))>>,  \* ln(0.3333265251939239) = -1.0986327132949192
    <<F64Lit(<<7284, 30153, 828, 184>>, 0 - 54),
      NegF64(F64Lit(<<5075, 13753, 31987, 130>>, 0 - 52))>>,  \* ln(0.35942440749426585) = -1.0232513951570936
    <<F64Lit(<<24676, 28275, 1580, 192>>, 0 - 54),
      NegF64(F64Lit(<<1499, 18547, 916, 251>>, 0 - 53))>>,  \* ln(0.3750942267720403) = -0.9805780131829879
    <<F64Lit(<<1294, 22179, 26551, 214>>, 0 - 54),
      NegF64(F64Lit(<<30471, 24814, 11591, 222>>, 0 - 53))>>,  \* ln(0.4195513532668692) = -0.8685693451513722
    <<F64Lit(<<1915, 25600, 28487, 223>>, 0 - 54),
      NegF64(F64Lit(<<10694, 19589, 25527, 211>>, 0 - 53))>>,  \* ln(0.4372448790819516) = -0.8272618767999169
    <<F64Lit(<<7123, 19703, 7148, 225>>, 0 - 54),
      NegF64(F64Lit(<<1648, 3746, 7907, 210>>, 0 - 53))>>,  \* ln(0.4398792148407981) = -0.8212551014805296
    <<F64Lit(<<9284, 22432, 21941, 231>>, 0 - 54),
      NegF64(F64Lit(<<7456, 31454, 365, 203>>, 0 - 53))>>,  \* ln(0.4524797013151025) = -0.7930123758204992
    <<F64Lit(<<16384, 16384, 32639, 255>>, 0 - 54),
      NegF64(F64Lit(<<6666, 15892, 14732, 177>>, 0 - 53))>>,  \* ln(0.49999234080405586) = -0.6931624990691614
    <<F64Lit(<<3969, 32273, 3, 128>>, 0 - 53),
      NegF64(F64Lit(<<10958, 466, 14596, 177>>, 0 - 53))>>,  \* ln(0.5000004750367993) = -0.6931462304867979
    <<F64Lit(<<8191, 2048, 32, 128>>, 0 - 53),
      NegF64(F64Lit(<<32241, 28155, 14539, 177>>, 0 - 53))>>,  \* ln(0.5000038221487556) = -0.6931395362916516
    <<F64Lit(<<24626, 30292, 24459, 133>>, 0 - 53),
      NegF64(F64Lit(<<13759, 30237, 6660, 166>>, 0 - 53))>>,  \* ln(0.5224471002175106) = -0.649231543871501
    <<F64Lit(<<13184, 16770, 12124, 135>>, 0 - 53),
      NegF64(F64Lit(<<10253, 13347, 3748, 163>>, 0 - 53))>>,  \* ln(0.528789104436882) = -0.6371655949744778
    <<F64Lit(<<4094, 30720, 59, 144>>, 0 - 53),
      NegF64(F64Lit(<<7360, 23395, 9501, 147>>, 0 - 53))>>,  \* ln(0.562507145107247) = -0.5753514425713533
    <<F64Lit(<<27474, 1996, 5844, 145>>, 0 - 53),
      NegF64(F64Lit(<<15803, 30684, 6779, 145>>, 0 - 53))>>,  \* ln(0.5671029163525907) = -0.567214481403361
    <<F64Lit(<<20834, 18582, 32531, 147>>, 0 - 53),
      NegF64(F64Lit(<<31733, 32432, 9553, 140>>, 0 - 53))>>,  \* ln(0.5780968150016117) = -0.5480139243335304
    <<F64Lit(<<15154, 17058, 7232, 162>>, 0 - 53),
      NegF64(F64Lit(<<24605, 10760, 19150, 233>>, 0 - 54))>>,  \* ln(0.6336746836403562) = -0.45621957352114056
    <<F64Lit(<<10329, 12917, 4926, 168>>, 0 - 53),
      NegF64(F64Lit(<<32393, 7428, 6662, 215>>, 0 - 54))>>,  \* ln(0.6568372719532461) = -0.4203189746567451
    <<F64Lit(<<12110, 6933, 22915, 175>>, 0 - 53),
      NegF64(F64Lit(<<30250, 3414, 23544, 192>>, 0 - 54))>>,  \* ln(0.6863254560935077) = -0.37640333796830083
    <<F64Lit(<<2460, 31419, 18302, 187>>, 0 - 53),
      NegF64(F64Lit(<<25639, 11137, 9050, 159>>, 0 - 54))>>,  \* ln(0.7326506327192877) = -0.3110863172947255
    <<F64Lit(<<26176, 24382, 10321, 188>>, 0 - 53),
      NegF64(F64Lit(<<29871, 3402, 7059, 157>>, 0 - 54))>>,  \* ln(0.735605447781559) = -0.3070613803773296
    <<F64Lit(<<28672, 4095, 32, 192>>, 0 - 53),
      NegF64(F64Lit(<<28907, 19739, 9522, 147>>, 0 - 54))>>,  \* ln(0.7500038295979721) = -0.28767696633418777
    <<F64Lit(<<24676, 28275, 1580, 192>>, 0 - 53),
      NegF64(F64Lit(<<6103, 5373, 5393, 147>>, 0 - 54))>>,  \* ln(0.7501884535440806) = -0.28743083262304253
    <<F64Lit(<<18046, 15046, 3451, 199>>, 0 - 53),
      NegF64(F64Lit(<<7763, 18324, 22539, 128>>, 0 - 54))>>,  \* ln(0.7777551959972724) = -0.2513434624201853
    <<F64Lit(<<1294, 22179, 26551, 214>>, 0 - 53),
      NegF64(F64Lit(<<29789, 3049, 20719, 179>>, 0 - 55))>>,  \* ln(0.8391027065337384) = -0.17542216459142682
    <<F64Lit(<<1915, 25600, 28487, 223>>, 0 - 53),
      NegF64(F64Lit(<<16220, 14915, 10926, 137>>, 0 - 55))>>,  \* ln(0.8744897581639032) = -0.13411469623997163
    <<F64Lit(<<24580, 4095, 32648, 223>>, 0 - 53),
      NegF64(F64Lit(<<18408, 1251, 24670, 136>>, 0 - 55))>>,  \* ln(0.874985709785506) = -0.13354772443159324
    <<F64Lit(<<25600, 32767, 7, 224>>, 0 - 53),
      NegF64(F64Lit(<<28399, 15148, 24085, 136>>, 0 - 55))>>,  \* ln(0.8750009536735206) = -0.13353030271252161
    <<F64Lit(<<31234, 4095, 24, 224>>, 0 - 53),
      NegF64(F64Lit(<<21373, 24515, 24011, 136>>, 0 - 55))>>,  \* ln(0.8750028759239401) = -0.13352810585970679
    <<F64Lit(<<9284, 22432, 21941, 231>>, 0 - 53),
      NegF64(F64Lit(<<6531, 26446, 17167, 204>>, 0 - 56))>>,  \* ln(0.904959402630205) = -0.09986519526055386
    <<F64Lit(<<4670, 27560, 30943, 235>>, 0 - 53),
      NegF64(F64Lit(<<3448, 10217, 2589, 167>>, 0 - 56))>>,  \* ln(0.9216575433097842) = -0.0815815525025324
    <<F64Lit(<<3527, 15306, 12091, 242>>, 0 - 53),
      NegF64(F64Lit(<<12066, 16792, 3835, 224>>, 0 - 57))>>,  \* ln(0.9467539152032537) = -0.054716076794731686
    <<F64Lit(<<4096, 24607, 32639, 255>>, 0 - 53),
      NegF64(F64Lit(<<4467, 32767, 8192, 128>>, 0 - 68))>>,  \* ln(0.9999847115218472) = -1.5288595022770615e-05
    <<F64Lit(<<16386, 28671, 32703, 255>>, 0 - 53),
      NegF64(F64Lit(<<30566, 2048, 8209, 128>>, 0 - 69))>>,  \* ln(0.9999923557024888) = -7.644326729002326e-06
    <<F64Lit(<<384, 1980, 32752, 255>>, 0 - 53),
      NegF64(F64Lit(<<1857, 24648, 1095, 255>>, 0 - 72))>>,  \* ln(0.9999980998546079) = -1.9001471974204367e-06
    <<F64Lit(<<24830, 989, 32760, 255>>, 0 - 53),
      NegF64(F64Lit(<<6328, 23652, 1099, 255>>, 0 - 73))>>,  \* ln(0.9999990499264013) = -9.500740500024735e-07
    <<F64Lit(<<28674, 28671, 32767, 255>>, 0 - 53),
      NegF64(F64Lit(<<2047, 31744, 127, 128>>, 0 - 78))>>,  \* ln(0.9999999850983843) = -1.4901615830183013e-08
    <<F64Lit(<<0, 28672, 32767, 255>>, 0 - 53),
      NegF64(F64Lit(<<0, 1024, 0, 128>>, 0 - 78))>>,  \* ln(0.9999999850988388) = -1.490116130486996e-08
    <<F64Lit(<<16154, 30639, 29019, 154>>, 0 - 52),
      F64Lit(<<30341, 967, 7615, 195>>, 0 - 55)>>,  \* ln(1.2100438916786005) = 0.1906566330653058
    <<F64Lit(<<6656, 10588, 24318, 164>>, 0 - 52),
      F64Lit(<<12461, 6902, 6678, 129>>, 0 - 54)>>,  \* ln(1.287047940045909) = 0.25235117737316665
    <<F64Lit(<<10772, 2646, 2877, 177>>, 0 - 52),
      F64Lit(<<2025, 22119, 6654, 166>>, 0 - 54)>>,  \* ln(1.383498449506651) = 0.3246153995406745
    <<F64Lit(<<15518, 31120, 8112, 213>>, 0 - 52),
      F64Lit(<<2238, 18875, 21903, 130>>, 0 - 53)>>,  \* ln(1.6659967779449185) = 0.5104236097361292
    <<F64Lit(<<15460, 3218, 23219, 161>>, 0 - 51),
      F64Lit(<<16843, 6675, 9492, 237>>, 0 - 53)>>,  \* ln(2.526696728811247) = 0.9269128088617945
    <<F64Lit(<<24650, 19495, 32406, 226>>, 0 - 51),
      F64Lit(<<9702, 26648, 1649, 162>>, 0 - 52)>>,  \* ln(3.5467026686492646) = 1.2660183461288113
    <<F64Lit(<<15183, 18937, 17954, 161>>, 0 - 50),
      F64Lit(<<19874, 29673, 7878, 207>>, 0 - 52)>>,  \* ln(5.04837281982948) = 1.6190659774700653
    <<F64Lit(<<23289, 11397, 6138, 167>>, 0 - 50),
      F64Lit(<<30935, 5373, 20726, 211>>, 0 - 52)>>,  \* ln(5.224603984671142) = 1.6533790025710482
    <<F64Lit(<<3345, 27992, 28692, 213>>, 0 - 50),
      F64Lit(<<22980, 17195, 5122, 243>>, 0 - 52)>>,  \* ln(6.683613638163721) = 1.899658805077352
    <<F64Lit(<<2345, 17341, 32256, 223>>, 0 - 50),
      F64Lit(<<20517, 14503, 2214, 249>>, 0 - 52)>>,  \* ln(6.999512223441607) = 1.9458404642618998
    <<F64Lit(<<32155, 21545, 30465, 251>>, 0 - 47),
      F64Lit(<<27407, 7770, 18723, 132>>, 0 - 50)>>,  \* ln(62.982434520959224) = 4.142855870387179
    <<F64Lit(<<14054, 8161, 16929, 252>>, 0 - 47),
      F64Lit(<<10645, 6033, 21163, 132>>, 0 - 50)>>,  \* ln(63.129159920250274) = 4.145182785150969
    <<F64Lit(<<21236, 13783, 14394, 244>>, 0 - 44),
      F64Lit(<<9278, 8604, 4838, 198>>, 0 - 50)>>,  \* ln(488.8785657131077) = 6.192114126760371
    <<F64Lit(<<17121, 17690, 19385, 181>>, 0 - 42),
      F64Lit(<<23829, 13302, 32717, 232>>, 0 - 50)>>,  \* ln(1452.7327978202886) = 7.28120174977018
    <<F64Lit(<<22720, 32528, 9468, 237>>, 0 - 42),
      F64Lit(<<10560, 28165, 18318, 241>>, 0 - 50)>>,  \* ln(1898.3117657951516) = 7.548720225846694
    <<F64Lit(<<13372, 2836, 17730, 147>>, 0 - 41),
      F64Lit(<<4586, 11696, 17506, 248>>, 0 - 50)>>,  \* ln(2360.657268828274) = 7.766695362985482
    <<F64Lit(<<15273, 19826, 533, 195>>, 0 - 40),
      F64Lit(<<18306, 30104, 26905, 139>>, 0 - 49)>>,  \* ln(6240.521098687234) = 8.738818967281762
    <<F64Lit(<<11000, 19501, 30772, 240>>, 0 - 36),
      F64Lit(<<31810, 15201, 18543, 187>>, 0 - 49)>>,  \* ln(123360.8217989615) = 11.722868850569402
    <<F64Lit(<<6952, 7129, 28642, 255>>, 0 - 35),
      F64Lit(<<415, 18258, 20267, 199>>, 0 - 49)>>,  \* ln(262015.06929894653) = 12.476157297497421
    <<F64Lit(<<30208, 31871, 32255, 255>>, 0 - 26),
      F64Lit(<<8260, 3610, 23570, 149>>, 0 - 48)>>,  \* ln(134209535.56246185) = 18.71491283483944
    <<F64Lit(<<31665, 386, 5514, 214>>, 0 - 19),
      F64Lit(<<17166, 6677, 3562, 187>>, 0 - 48)>>,  \* ln(14372589592.185396) = 23.388588729026246
    <<F64Lit(<<9144, 11601, 1508, 195>>, 0 - 17),
      F64Lit(<<6366, 18225, 14773, 197>>, 0 - 48)>>  \* ln(52357270356.31976) = 24.681356644396935
    }

\* <<x, x.exp()>>
ExpKnown == {
    <<NegF64(F64Lit(<<0, 0, 0, 160>>, 0 - 51)),
      F64Lit(<<29733, 297, 3607, 168>>, 0 - 56)>>,  \* exp(-2.5) = 0.0820849986238988
    <<F64Lit(<<0, 0, 0, 192>>, 0 - 52),
      F64Lit(<<17729, 19615, 13567, 143>>, 0 - 50)>>   \* exp(1.5) = 4.4816890703380645
    }

\* <<x, y, x.powf(y)>>
PowfKnown == <<
    <<F64Lit(<<29632, 29183, 2047, 128>>, 0 - 70), F64Lit(<<0, 0, 0, 128>>, 0 - 51),
      F64Lit(<<10112, 25596, 4096, 128>>, 0 - 88)>>,  \* 3.816559811295592e-06 ^ 2.0 = 1.4566128793196642e-11
    <<F64Lit(<<29632, 29183, 2047, 128>>, 0 - 70), F64Lit(<<0, 0, 0, 128>>, 0 - 41),
      F64Zero(0)>>,  \* 3.816559811295592e-06 ^ 2048.0 = 0.0
    <<F64Lit(<<14592, 6144, 2, 136>>, 0 - 69), F64Lit(<<0, 0, 0, 128>>, 0 - 41),
      F64Zero(0)>>,  \* 8.106235668517165e-06 ^ 2048.0 = 0.0
    <<F64Lit(<<30840, 12810, 2, 168>>, 0 - 65), F64Lit(<<0, 0, 0, 128>>, 0 - 51),
      F64Lit(<<25074, 9052, 16390, 220>>, 0 - 78)>>,  \* 0.0001602173547423124 ^ 2.0 = 2.566960076062397e-08
    <<F64Lit(<<30840, 12810, 2, 168>>, 0 - 65), F64Lit(<<0, 0, 0, 128>>, 0 - 41),
      F64Zero(0)>>,  \* 0.0001602173547423124 ^ 2048.0 = 0.0
    <<F64Lit(<<31732, 6477, 1, 222>>, 0 - 64), F64Lit(<<0, 0, 0, 128>>, 0 - 51),
      F64Lit(<<7603, 2531, 16898, 192>>, 0 - 75)>>,  \* 0.00042343146619921936 ^ 2.0 = 1.7929420656762065e-07
    <<F64Lit(<<31732, 6477, 1, 222>>, 0 - 64), F64Lit(<<0, 0, 0, 128>>, 0 - 41),
      F64Zero(0)>>,  \* 0.00042343146619921936 ^ 2048.0 = 0.0
    <<F64Lit(<<7910, 14467, 672, 138>>, 0 - 63), F64Lit(<<0, 0, 0, 128>>, 0 - 41),
      F64Zero(0)>>,  \* 0.0005265065051504841 ^ 2048.0 = 0.0
    <<F64Lit(<<220, 10907, 10641, 180>>, 0 - 63), F64Lit(<<0, 0, 0, 128>>, 0 - 41),
      F64Zero(0)>>,  \* 0.0006878843220015324 ^ 2048.0 = 0.0
    <<F64Lit(<<25764, 2689, 25562, 133>>, 0 - 61), F64Lit(<<0, 0, 0, 128>>, 0 - 41),
      F64Zero(0)>>,  \* 0.002041322217362822 ^ 2048.0 = 0.0
    <<F64Lit(<<30224, 24564, 16931, 223>>, 0 - 59), F64Lit(<<0, 0, 0, 128>>, 0 - 41),
      F64Zero(0)>>,  \* 0.0136423776851258 ^ 2048.0 = 0.0
    <<F64Lit(<<26670, 24632, 30490, 247>>, 0 - 59), F64Lit(<<0, 0, 0, 128>>, 0 - 41),
      F64Zero(0)>>,  \* 0.01513247704456341 ^ 2048.0 = 0.0
    <<F64Lit(<<31729, 27768, 15872, 255>>, 0 - 59), F64Lit(<<0, 0, 0, 128>>, 0 - 51),
      F64Lit(<<2526, 23682, 31779, 254>>, 0 - 65)>>,  \* 0.01559353032604169 ^ 2.0 = 0.00024315818802918184
    <<F64Lit(<<31729, 27768, 15872, 255>>, 0 - 59), F64Lit(<<0, 0, 0, 128>>, 0 - 41),
      F64Zero(0)>>,  \* 0.01559353032604169 ^ 2048.0 = 0.0
    <<F64Lit(<<30777, 15966, 1151, 128>>, 0 - 58), F64Lit(<<0, 0, 0, 128>>, 0 - 41),
      F64Zero(0)>>,  \* 0.01562928962436436 ^ 2048.0 = 0.0
    <<F64Lit(<<14336, 24608, 255, 128>>, 0 - 55), F64Lit(<<0, 0, 0, 128>>, 0 - 51),
      F64Lit(<<28818, 16959, 511, 128>>, 0 - 58)>>,  \* 0.1250076219734524 ^ 2.0 = 0.015626905551457577
    <<F64Lit(<<14336, 24608, 255, 128>>, 0 - 55), F64Lit(<<0, 0, 0, 128>>, 0 - 41),
      F64Zero(0)>>,  \* 0.1250076219734524 ^ 2048.0 = 0.0
    <<F64Lit(<<32357, 4423, 16661, 164>>, 0 - 55), F64Lit(<<0, 0, 0, 128>>, 0 - 51),
      F64Lit(<<1968, 11203, 14088, 211>>, 0 - 58)>>,  \* 0.16065279051689454 ^ 2.0 = 0.025809319100865202
    <<F64Lit(<<32357, 4423, 16661, 164>>, 0 - 55), F64Lit(<<0, 0, 0, 128>>, 0 - 41),
      F64Zero(0)>>,  \* 0.16065279051689454 ^ 2048.0 = 0.0
    <<F64Lit(<<14490, 6085, 9887, 169>>, 0 - 55), F64Lit(<<0, 0, 0, 128>>, 0 - 51),
      F64Lit(<<18633, 21519, 30483, 223>>, 0 - 58)>>,  \* 0.16533372359612458 ^ 2.0 = 0.02733524015815972
    <<F64Lit(<<14490, 6085, 9887, 169>>, 0 - 55), F64Lit(<<0, 0, 0, 128>>, 0 - 41),
      F64Zero(0)>>,  \* 0.16533372359612458 ^ 2048.0 = 0.0
    <<F64Lit(<<7123, 19703, 7148, 225>>, 0 - 55), F64Lit(<<0, 0, 0, 128>>, 0 - 41),
      F64Zero(0)>>,  \* 0.21993960742039906 ^ 2048.0 = 0.0
    <<F64Lit(<<27474, 1996, 5844, 145>>, 0 - 54), F64Lit(<<0, 0, 0, 128>>, 0 - 51),
      F64Lit(<<25447, 19440, 21696, 164>>, 0 - 56)>>,  \* 0.28355145817629535 ^ 2.0 = 0.08040142943390337
    <<F64Lit(<<27474, 1996, 5844, 145>>, 0 - 54), F64Lit(<<0, 0, 0, 128>>, 0 - 41),
      F64Zero(0)>>,  \* 0.28355145817629535 ^ 2048.0 = 0.0
    <<F64Lit(<<24676, 28275, 1580, 192>>, 0 - 54), F64Lit(<<0, 0, 0, 128>>, 0 - 41),
      F64Zero(0)>>,  \* 0.3750942267720403 ^ 2048.0 = 0.0
    <<F64Lit(<<1915, 25600, 28487, 223>>, 0 - 54), F64Lit(<<0, 0, 0, 128>>, 0 - 41),
      F64Zero(0)>>,  \* 0.4372448790819516 ^ 2048.0 = 0.0
    <<F64Lit(<<9284, 22432, 21941, 231>>, 0 - 54), F64Lit(<<0, 0, 0, 128>>, 0 - 51),
      F64Lit(<<19080, 9034, 21351, 209>>, 0 - 55)>>,  \* 0.4524797013151025 ^ 2.0 = 0.2047378801022044
    <<F64Lit(<<9284, 22432, 21941, 231>>, 0 - 54), F64Lit(<<0, 0, 0, 128>>, 0 - 41),
      F64Zero(0)>>,  \* 0.4524797013151025 ^ 2048.0 = 0.0
    <<F64Lit(<<29496, 8917, 131, 251>>, 0 - 54), F64Lit(<<0, 0, 0, 128>>, 0 - 41),
      F64Zero(0)>>,  \* 0.49024219943003144 ^ 2048.0 = 0.0
    <<F64Lit(<<3969, 32273, 3, 128>>, 0 - 53), F64Lit(<<0, 0, 0, 128>>, 0 - 51),
      F64Lit(<<12003, 31778, 7, 128>>, 0 - 54)>>,  \* 0.5000004750367993 ^ 2.0 = 0.250000475037025
    <<F64Lit(<<3969, 32273, 3, 128>>, 0 - 53), F64Lit(<<0, 0, 0, 128>>, 0 - 41),
      F64Zero(0)>>,  \* 0.5000004750367993 ^ 2048.0 = 0.0
    <<F64Lit(<<4094, 30720, 59, 144>>, 0 - 53), F64Lit(<<0, 0, 0, 128>>, 0 - 51),
      F64Lit(<<11389, 28188, 134, 162>>, 0 - 54)>>,  \* 0.562507145107247 ^ 2.0 = 0.3164142882967054
    <<F64Lit(<<4094, 30720, 59, 144>>, 0 - 53), F64Lit(<<0, 0, 0, 128>>, 0 - 41),
      F64Zero(0)>>,  \* 0.562507145107247 ^ 2048.0 = 0.0
    <<F64Lit(<<15154, 17058, 7232, 162>>, 0 - 53), F64Lit(<<0, 0, 0, 128>>, 0 - 41),
      F64Zero(0)>>,  \* 0.6336746836403562 ^ 2048.0 = 0.0
    <<F64Lit(<<10329, 12917, 4926, 168>>, 0 - 53), F64Lit(<<0, 0, 0, 128>>, 0 - 41),
      F64Zero(0)>>,  \* 0.6568372719532461 ^ 2048.0 = 0.0
    <<F64Lit(<<26176, 24382, 10321, 188>>, 0 - 53), F64Lit(<<0, 0, 0, 128>>, 0 - 41),
      F64Lit(<<4729, 22686, 13948, 214>>, 0 - 960)>>,  \* 0.735605447781559 ^ 2048.0 = 7.741600642652821e-274
    <<F64Lit(<<4145, 28987, 24882, 188>>, 0 - 53), F64Lit(<<0, 0, 0, 128>>, 0 - 41),
      F64Lit(<<6784, 24416, 4200, 209>>, 0 - 953)>>,  \* 0.7373412709971544 ^ 2048.0 = 9.66443633352671e-272
    <<F64Lit(<<28672, 4095, 32, 192>>, 0 - 53), F64Lit(<<0, 0, 0, 128>>, 0 - 51),
      F64Lit(<<27650, 6147, 48, 144>>, 0 - 53)>>,  \* 0.7500038295979721 ^ 2.0 = 0.5625057444116239
    <<F64Lit(<<28672, 4095, 32, 192>>, 0 - 53), F64Lit(<<0, 0, 0, 128>>, 0 - 41),
      F64Lit(<<28263, 6467, 20739, 129>>, 0 - 902)>>,  \* 0.7500038295979721 ^ 2048.0 = 1.348990795579909e-256
    <<F64Lit(<<25600, 32767, 7, 224>>, 0 - 53), F64Lit(<<0, 0, 0, 128>>, 0 - 51),
      F64Lit(<<28416, 32767, 13, 196>>, 0 - 53)>>,  \* 0.8750009536735206 ^ 2.0 = 0.7656266689295705
    <<F64Lit(<<25600, 32767, 7, 224>>, 0 - 53), F64Lit(<<0, 0, 0, 128>>, 0 - 41),
      F64Lit(<<15388, 7380, 26721, 176>>, 0 - 447)>>,  \* 0.8750009536735206 ^ 2048.0 = 1.711835370572967e-119
    <<F64Lit(<<31234, 4095, 24, 224>>, 0 - 53), F64Lit(<<0, 0, 0, 128>>, 0 - 41),
      F64Lit(<<28355, 18268, 20079, 177>>, 0 - 447)>>,  \* 0.8750028759239401 ^ 2048.0 = 1.7195545343288501e-119
    <<F64Lit(<<4670, 27560, 30943, 235>>, 0 - 53), F64Lit(<<0, 0, 0, 128>>, 0 - 51),
      F64Lit(<<9098, 3396, 15069, 217>>, 0 - 53)>>,  \* 0.9216575433097842 ^ 2.0 = 0.8494526271398268
    <<F64Lit(<<4670, 27560, 30943, 235>>, 0 - 53), F64Lit(<<0, 0, 0, 128>>, 0 - 41),
      F64Lit(<<9493, 2369, 9755, 248>>, 0 - 294)>>,  \* 0.9216575433097842 ^ 2048.0 = 2.7447562230312497e-73
    <<F64Lit(<<3527, 15306, 12091, 242>>, 0 - 53), F64Lit(<<0, 0, 0, 128>>, 0 - 41),
      F64Lit(<<30383, 5538, 10265, 161>>, 0 - 214)>>,  \* 0.9467539152032537 ^ 2048.0 = 2.155762051209625e-49
    <<F64Lit(<<28674, 28671, 32767, 255>>, 0 - 53), F64Lit(<<0, 0, 0, 128>>, 0 - 51),
      F64Lit(<<24582, 24575, 32767, 255>>, 0 - 53)>>,  \* 0.9999999850983843 ^ 2.0 = 0.9999999701967688
    <<F64Lit(<<28674, 28671, 32767, 255>>, 0 - 53), F64Lit(<<0, 0, 0, 128>>, 0 - 41),
      F64Lit(<<2261, 32640, 32511, 255>>, 0 - 53)>>,  \* 0.9999999850983843 ^ 2048.0 = 0.9999694819564647
    <<F64Lit(<<0, 0, 0, 128>>, 0 - 54), F64Lit(<<0, 0, 0, 128>>, 0 - 51),
      F64Lit(<<0, 0, 0, 128>>, 0 - 56)>>,  \* 0.25 ^ 2.0 = 0.0625
    <<F64Lit(<<0, 0, 0, 128>>, 0 - 54), F64Lit(<<0, 0, 0, 128>>, 0 - 41),
      F64Zero(0)>>,  \* 0.25 ^ 2048.0 = 0.0
    <<F64Lit(<<0, 0, 0, 224>>, 0 - 53), F64Lit(<<0, 0, 0, 128>>, 0 - 51),
      F64Lit(<<0, 0, 0, 196>>, 0 - 53)>>,  \* 0.875 ^ 2.0 = 0.765625
    <<F64Lit(<<0, 0, 0, 224>>, 0 - 53), F64Lit(<<0, 0, 0, 128>>, 0 - 41),
      F64Lit(<<21924, 28762, 13802, 176>>, 0 - 447)>>,  \* 0.875 ^ 2048.0 = 1.708018576142872e-119
    <<F64Lit(<<0, 0, 0, 252>>, 0 - 53), F64Lit(<<0, 0, 0, 128>>, 0 - 51),
      F64Lit(<<0, 0, 2048, 248>>, 0 - 53)>>,  \* 0.984375 ^ 2.0 = 0.968994140625
    <<F64Lit(<<0, 0, 0, 252>>, 0 - 53), F64Lit(<<0, 0, 0, 128>>, 0 - 41),
      F64Lit(<<21668, 30842, 6748, 177>>, 0 - 99)>>   \* 0.984375 ^ 2048.0 = 9.836906919116994e-15
    >>

\* the value a table holds for the argument x
Looked(table, x) == (CHOOSE r \in table : r[1] = x)[2]

\* f64::ln
LnF64(x) ==
    CASE x.kind = "nan" -> F64NaN
      [] x.kind = "fin" /\ x.man = <<>> -> F64Inf(1)
      [] x.kind # "nan" /\ x.man # <<>> /\ x.sign = 1 -> F64NaN
      [] x.kind = "inf" /\ x.sign = 0 -> x
      [] x = F64One -> F64Zero(0)
      [] OTHER -> Looked(LnKnown, x)

\* f64::exp
ExpF64(x) ==
    CASE x.kind = "nan" -> F64NaN
      [] x.kind = "inf" /\ x.sign = 0 -> x
      [] x.kind = "inf" /\ x.sign = 1 -> F64Zero(0)
      [] x.kind = "fin" /\ x.man = <<>> -> F64One
      [] OTHER -> Looked(ExpKnown, x)

\* f64::powf(x, y) for x >= 0 and a finite y > 0
PowfF64(x, y) ==
    CASE x.kind = "nan" -> F64NaN
      [] x.kind = "fin" /\ x.man = <<>> -> F64Zero(0)
      [] x = F64One -> F64One
      [] OTHER ->
           PowfKnown[CHOOSE i \in 1..Len(PowfKnown) :
                        PowfKnown[i][1] = x /\ PowfKnown[i][2] = y][3]
-----------------------------------------------------------------------------
(* should! and the arithmetic of usize: what a build with debug assertions *)
(* (and with it the overflow checks) stops on.                             *)

\* what a call that panics leaves in place of its value
Panic == [panic |-> TRUE]

\* should!(requirement) without the test of the build
ShouldAlways(assertions, requirement) == requirement

\* should!(requirement): debug_assert!(requirement, ...)
Should(assertions, requirement) == assertions => requirement

\* should!((0.0..=1.0).contains(&p)) and should!(0.0 <= p && p <= 1.0)
ShouldContain(assertions, p) ==
    Should(assertions, LeF64(F64Zero(0), p) /\ LeF64(p, F64One))

\* what stands for the value of a call whose loop has stopped changing what
\* it tests: it returns only after k itself has wrapped around
RunsOn == [runs |-> TRUE]
-----------------------------------------------------------------------------
(* distribution/binomial.rs *)

\* Binomial::new(n, p): q = 1.0 - p, np = n as f64 * p, nq = n as f64 * q,
\* npq = np * q
BinomialNew(n, p) ==
    LET q == DiffF64(F64One, p)
        np == ProdF64(CastToF64(n), p)
        nq == ProdF64(CastToF64(n), q)
    IN  [made |-> TRUE, n |-> n, p |-> p, q |-> q, np |-> np, nq |-> nq,
         npq |-> ProdF64(np, q)]

\* Binomial::with_failure(n, q) past its should!
BinomialWithFailure(n, q) ==
    LET p == DiffF64(F64One, q)
        np == ProdF64(CastToF64(n), p)
        nq == ProdF64(CastToF64(n), q)
    IN  [made |-> TRUE, n |-> n, p |-> p, q |-> q, np |-> np, nq |-> nq,
         npq |-> ProdF64(np, q)]

\* the number of trailing zero bits of a natural number that is not zero
TrailingZerosLimb(x) == Cardinality({n \in 1..14 : x % Pow2(n) = 0})

TrailingZeros(m) ==
    LET first == CHOOSE i \in 1..Len(m) :
                     m[i] # 0 /\ \A j \in 1..(i - 1) : m[j] = 0
    IN  15 * (first - 1) + TrailingZerosLimb(m[first])

NatSquare(a) == NatMul(a, a)

RECURSIVE NatPow(_, _)
NatPow(m, k) ==
    IF k = 0 THEN NatOf(1)
    ELSE IF k % 2 = 1 THEN NatMul(m, NatPow(m, k - 1))
    ELSE NatSquare(NatPow(m, k \div 2))

\* the number of ways to choose k of n
Choose(n, k) == Cardinality({s \in SUBSET (1..n) : Cardinality(s) = k})

\* C(n, j) * x^j * y^(n - j)
BinomialTerm(x, y, n, j) ==
    NatMul(NatOf(Choose(n, j)), NatMul(NatPow(x, j), NatPow(y, n - j)))

\* sum over j in lo..hi of C(n, j) * x^j * y^(n - j), by halves
RECURSIVE BinomialSum(_, _, _, _, _)
BinomialSum(x, y, n, lo, hi) ==
    IF lo > hi THEN <<>>
    ELSE IF lo = hi THEN BinomialTerm(x, y, n, lo)
    ELSE NatAdd(BinomialSum(x, y, n, lo, (lo + hi) \div 2),
                BinomialSum(x, y, n, ((lo + hi) \div 2) + 1, hi))

\* The regularized incomplete beta function I_x(a, b) for whole a and b and
\* 0 < x <= 1, the exact value as man * 2^exp:
\* the sum over j in a..a+b-1 of C(a+b-1, j) * x^j * (1 - x)^(a+b-1-j).
IncBetaExact(x, a, b) ==
    LET one == NatShl(NatOf(1), 0 - x.exp)
        y == NatSub(one, x.man)
        tz == IF y = <<>> THEN TrailingZeros(x.man)
              ELSE Min(TrailingZeros(x.man), TrailingZeros(y))
        n == a + b - 1
    IN  [man |-> BinomialSum(NatShr(x.man, tz), NatShr(y, tz), n, a, n),
         exp |-> n * (x.exp + tz)]

\* the f64 nearest to an exact value man * 2^exp
RoundDyadic(v) == RoundF64(0, v.man, v.exp)

\* special::Beta::inc_beta(self, p, q, ln_beta) on whole p and q: the
\* special-function collaborator, taken as exact to the last bit
IncBeta(x, a, b) == RoundDyadic(IncBetaExact(x, a, b))

\* the cumulative probability at the count xi
DistributionAt(d, xi) ==
    IF xi = 0 THEN Powi(d.q, AsI32(NatOf(d.n)))
    ELSE IF xi >= d.n THEN F64One
    ELSE IncBeta(d.q, d.n - xi, xi + 1)

\* distribution with the argument rounded to the nearest count
DistributionNearest(d, x) ==
    IF LtF64(x, F64Zero(0)) THEN F64Zero(0)
    ELSE DistributionAt(d, AsCount(SumF64(x, Dyadic(1, 0 - 1))))

\* Distribution::distribution(&self, x: f64)
Distribution(d, x) ==
    IF LtF64(x, F64Zero(0)) THEN F64Zero(0)
    ELSE DistributionAt(d, AsCount(x))

\* the result of a subtraction below zero in usize
UsizeOverflow == 0 - 1

\* self.n - k is below zero in usize: with overflow checks, which a build
\* has together with its debug assertions, the subtraction panics
Overflows(d, k, checked) == checked /\ k > d.n

\* self.n - k + 1 in usize where nothing is checked: modulo 2^64
CountLeft(d, k) ==
    IF k <= d.n + 1 THEN NatOf(d.n - k + 1)
    ELSE NatSub(NatShl(NatOf(1), W64), NatOf(k - d.n - 1))

\* |k| self.p / self.q * ((self.n - k + 1) as f64 / k as f64)
TermBottomUp(d, k, checked) ==
    IF Overflows(d, k, checked) THEN Panic
    ELSE ProdF64(QuotF64(d.p, d.q),
                 QuotF64(RoundF64(0, CountLeft(d, k), 0), CastToF64(k)))

\* |k| self.q / self.p * ((self.n - k + 1) as f64 / k as f64)
TermTopDown(d, k, checked) ==
    IF Overflows(d, k, checked) THEN Panic
    ELSE ProdF64(QuotF64(d.q, d.p),
                 QuotF64(RoundF64(0, CountLeft(d, k), 0), CastToF64(k)))

\* how a summation ends: "return" with the value; "wrapped" with the value
\* less 2^64; "panic"; "runs_on"
Ended(ends, value, loops) == [ends |-> ends, value |-> value, loops |-> loops]

\* Past k = n + 1 a loop that is still running has multiplied a by the term
\* of k = n + 1, which is zero, and again by the term of k = n + 2: had
\* either product been NaN the sum would be NaN and the loop left, so a is
\* zero, the terms that follow are smaller and finite, and the sum stays
\* what it is
PastCounts(d, k) == k > d.n + 2

\* sum_bottom_up!: while sum < 0.0 { a *= term(k); sum += a; k += 1 }; k - 1
RECURSIVE SumBottomUpFrom(_, _, _, _, _)
\* sum += a; k += 1
SumBottomUpStep(d, k, a, sum, checked) ==
    SumBottomUpFrom(d, k + 1, a, SumF64(sum, a), checked)

SumBottomUpFrom(d, k, a, sum, checked) ==
    IF ~LtF64(sum, F64Zero(0)) THEN Ended("return", k - 1, k - 1)
    ELSE IF Overflows(d, k, checked) THEN Ended("panic", 0, k - 1)
    ELSE IF PastCounts(d, k) THEN Ended("runs_on", 0, k - 1)
    ELSE SumBottomUpStep(d, k, ProdF64(a, TermBottomUp(d, k, checked)), sum,
                         checked)

\* a = self.q.powi(self.n as i32); sum = a - p
SumBottomUpStart(d, u, a, checked) ==
    SumBottomUpFrom(d, 1, a, DiffF64(a, u), checked)

SumBottomUp(d, u, checked) ==
    SumBottomUpStart(d, u, Powi(d.q, AsI32(NatOf(d.n))), checked)

\* self.n - k + 1 once the loop is left
TopDownEnd(d, k, checked) ==
    IF Overflows(d, k, checked) THEN Ended("panic", 0, k - 1)
    ELSE Ended(IF k <= d.n + 1 THEN "return" ELSE "wrapped", d.n - k + 1,
               k - 1)

\* sum_top_down!: while sum >= 0.0 { a *= term(k); sum -= a; k += 1 };
\* self.n - k + 1
RECURSIVE SumTopDownFrom(_, _, _, _, _)
\* sum -= a; k += 1
SumTopDownStep(d, k, a, sum, checked) ==
    SumTopDownFrom(d, k + 1, a, DiffF64(sum, a), checked)

SumTopDownFrom(d, k, a, sum, checked) ==
    IF ~LeF64(F64Zero(0), sum) THEN TopDownEnd(d, k, checked)
    ELSE IF Overflows(d, k, checked) THEN Ended("panic", 0, k - 1)
    ELSE IF PastCounts(d, k) THEN Ended("runs_on", 0, k - 1)
    ELSE SumTopDownStep(d, k, ProdF64(a, TermTopDown(d, k, checked)), sum,
                        checked)

\* a = self.p.powi(self.n as i32); sum = (1.0 - p) - a
SumTopDownStart(d, u, a, checked) ==
    SumTopDownFrom(d, 1, a, DiffF64(DiffF64(F64One, u), a), checked)

SumTopDown(d, u, checked) ==
    SumTopDownStart(d, u, Powi(d.p, AsI32(NatOf(d.n))), checked)
\* fn poly(c: &[f64], x: f64): Horner's rule over the eight coefficients,
\* from the innermost bracket outwards
RECURSIVE PolyFrom(_, _, _, _)
PolyFrom(c, x, i, inner) ==
    IF i = 0 \/ inner.kind = "nan" THEN inner   \* a NaN stays a NaN
    ELSE PolyFrom(c, x, i - 1, SumF64(c[i], ProdF64(x, inner)))

Poly(c, x) == PolyFrom(c, x, Len(c) - 1, c[Len(c)])

\* poly(&c, x) / poly(&d, x)
PolyRatio(c, d, x) == QuotF64(Poly(c, x), Poly(d, x))

\* |q| <= SPLIT1: x = CONST1 - q * q; q * poly(&A, x) / poly(&B, x)
GaussianCentral(q, x) ==
    QuotF64(ProdF64(q, Poly(GaussianA, x)), Poly(GaussianB, x))

\* x = sqrt(-ln(x)), then the ratio for x <= SPLIT2 or the one beyond
GaussianTail(x) ==
    IF LeF64(x, SPLIT2) THEN PolyRatio(GaussianC, GaussianD, DiffF64(x, CONST2))
    ELSE PolyRatio(GaussianE, GaussianF, DiffF64(x, SPLIT2))

\* if q < 0.0 { -x } else { x }
GaussianSigned(q, x) == IF LtF64(q, F64Zero(0)) THEN NegF64(x) ELSE x

\* q = p - 0.5
GaussianSplit(p, q) ==
    IF LeF64(IF LtF64(q, F64Zero(0)) THEN NegF64(q) ELSE q, SPLIT1)
    THEN GaussianCentral(q, DiffF64(CONST1, ProdF64(q, q)))
    ELSE GaussianSigned(q,
             GaussianTail(SqrtF64(NegF64(LnF64(
                 IF LtF64(q, F64Zero(0)) THEN p ELSE DiffF64(F64One, p))))))

\* gaussian::inverse(p): the quantile of the standard Gaussian (AS 241)
GaussianInverse(p) ==
    IF LeF64(p, F64Zero(0)) THEN F64Inf(1)
    ELSE IF LeF64(F64One, p) THEN F64Inf(0)
    ELSE GaussianSplit(p, DiffF64(p, Dyadic(1, 0 - 1)))

\* the terms of a sum added from the left, as `a + b - c + ...` is read
RECURSIVE SumLeft(_, _, _)
SumLeft(terms, i, sum) ==
    IF i > Len(terms) THEN sum
    ELSE SumLeft(terms, i + 1, SumF64(sum, terms[i]))

\* w, w2 = w * w, w3 = w2 * w, ... up to the k-th power
RECURSIVE PowersFrom(_, _, _)
PowersFrom(w, k, ws) ==
    IF Len(ws) = k THEN ws
    ELSE PowersFrom(w, k, Append(ws, ProdF64(ws[Len(ws)], w)))

Powers(w, k) == PowersFrom(w, k, <<w>>)

\* p, p2 = p * p, p3 = p2 * p, p4 = p2 * p2
PowersOfP(p, p2) == <<p, p2, ProdF64(p2, p), ProdF64(p2, p2)>>

\* c[1] * p4 + c[2] * p3 + c[3] * p2 + c[4] * p + c[5], added from the left
Quartic(c, p) ==
    SumLeft([i \in 1..5 |-> IF i = 5 THEN WholeF64(c[5])
                            ELSE ProdF64(WholeF64(c[i]), p[5 - i])],
            2, ProdF64(WholeF64(c[1]), p[4]))

\* the terms of inverse_normal after np, by the powers w[k] of the Gaussian
\* quantile and p[k] of p, sd = v.sqrt(), sd_em2 = v.recip() and
\* twoPm1 = 2.0 * p - 1.0
InverseNormalTerms(np, w, p, sd, sd_em2, twoPm1) ==
    LET N(k) == CastToF64(k)
        M(a, b) == ProdF64(a, b)
        A(a, b) == SumF64(a, b)
        S(a, b) == DiffF64(a, b)
        D(a, b) == QuotF64(a, b)
        \* c2 * p2 - c1 * p + c0
        quadratic(c2, c1, c0) == A(S(M(N(c2), p[2]), M(N(c1), p[1])), c0)
    IN  << np,
           M(sd, w[1]),
           D(A(p[1], N(1)), N(3)),
           NegF64(D(M(twoPm1, w[2]), N(6))),
           D(M(M(RecipF64(sd), w[3]), quadratic(2, 2, NegF64(N(1)))), N(72)),
           NegF64(D(M(w[1], quadratic(7, 7, N(1))), N(36))),
           M(M(M(M(sd_em2, twoPm1), A(p[1], N(1))), S(p[1], N(2))),
             S(A(M(N(3), w[4]), M(N(7), w[2])), D(N(16), N(1620)))),
           M(M(RecipF64(sd), sd_em2),
             S(A(D(M(w[5], Quartic(<<4, 0 - 8, 0 - 48, 52, 0 - 23>>, p)),
                   N(17280)),
                 D(M(w[3], Quartic(<<256, 0 - 512, 0 - 147, 403, 0 - 137>>, p)),
                   N(38880))),
               D(M(w[1], Quartic(<<433, 0 - 866, 0 - 921, 1354, 0 - 671>>, p)),
                 N(38880)))),
           M(M(sd_em2, sd_em2),
             S(A(A(D(M(M(M(w[6], twoPm1), quadratic(1, 1, N(1))),
                       quadratic(1, 1, N(19))),
                     N(34020)),
                   D(M(M(w[4], twoPm1),
                       Quartic(<<9, 0 - 18, 0 - 35, 44, 0 - 25>>, p)),
                     N(15120))),
                 D(M(M(w[2], twoPm1),
                     Quartic(<<923, 0 - 1846, 5271, 0 - 4348, 5189>>, p)),
                   N(408240))),
               D(M(M(M(M(N(4), twoPm1), A(p[1], N(1))), S(p[1], N(2))),
                   quadratic(23, 23, N(2))),
                 N(25515)))) >>

\* fn inverse_normal(p, np, v, u):
\* np + t2 + t3 - t4 + t5 - t6 + t7 + t8 + t9
InverseNormal(p, np, v, u) ==
    SumLeft(InverseNormalTerms(np, Powers(GaussianInverse(u), 6),
                               PowersOfP(p, ProdF64(p, p)), SqrtF64(v),
                               RecipF64(v),
                               DiffF64(ProdF64(CastToF64(2), p), CastToF64(1))),
            2, np)

\* r = self.p * (self.n + 1) as f64: vec![0], vec![self.n],
\* vec![r.floor() as usize] or, for a whole r, vec![r as usize - 1, r as usize]
ModesAt(d, r) ==
    IF EqF64(r, F64Zero(0)) THEN <<0>>
    ELSE IF EqF64(d.p, F64One) THEN <<d.n>>
    ELSE IF ~EqF64(DiffF64(r, TruncF64(r)), F64Zero(0))
    THEN <<AsCount(FloorF64(r))>>
    ELSE <<AsCount(r) - 1, AsCount(r)>>

\* Modes::modes(&self)
BinomialModes(d) == ModesAt(d, ProdF64(d.p, CastToF64(d.n + 1)))

\* self.modes()[0]
ModesFirst(d) == BinomialModes(d)[1]

\* Discrete::mass(&self, x) at x = 0 and x = n; in between the source takes
\* the saddle-point expansion through exp and ln, which is not modelled
Mass(d, x) ==
    CASE EqF64(d.p, F64Zero(0)) -> IF x = 0 THEN F64One ELSE F64Zero(0)
      [] ~EqF64(d.p, F64Zero(0)) /\ EqF64(d.p, F64One)
            -> IF x = d.n THEN F64One ELSE F64Zero(0)
      [] ~EqF64(d.p, F64Zero(0)) /\ ~EqF64(d.p, F64One) /\ x = 0
            -> ExpF64(ProdF64(CastToF64(d.n), LnF64(d.q)))
      [] ~EqF64(d.p, F64Zero(0)) /\ ~EqF64(d.p, F64One) /\ x # 0 /\ x = d.n
            -> ExpF64(ProdF64(CastToF64(d.n), LnF64(d.p)))

\* the loop of Newton's method: delta = alpha * (p - distribution(q)) /
\* mass(q as usize); return when delta.abs() < 0.5; q += delta;
\* alpha *= ALPHA
RECURSIVE NewtonFrom(_, _, _, _, _)
NewtonStep(d, u, q, alpha, loops, delta) ==
    IF LtF64(AbsF64(delta), Dyadic(1, 0 - 1))
    THEN Ended("return", AsCount(q), loops)
    ELSE NewtonFrom(d, u, SumF64(q, delta), ProdF64(alpha, ALPHA), loops + 1)

NewtonFrom(d, u, q, alpha, loops) ==
    NewtonStep(d, u, q, alpha, loops,
               QuotF64(ProdF64(alpha, DiffF64(u, Distribution(d, q))),
                       Mass(d, AsCount(q))))

\* Inverse::inverse after the two boundary probabilities: the regime by n
\* and npq, and the branch taken in it
InverseRegime(d, u, assertions) ==
    IF d.n < 1000
    THEN IF LeF64(u, Distribution(d, CastToF64(d.n \div 2)))
         THEN [branch |-> "bottom_up"] @@ SumBottomUp(d, u, assertions)
         ELSE [branch |-> "top_down"] @@ SumTopDown(d, u, assertions)
    ELSE IF LtF64(CastToF64(80), d.npq)
    THEN [branch |-> "normal"]
         @@ Ended("return",
                  AsCount(FloorF64(InverseNormal(d.p, d.np, d.npq, u))), 0)
    ELSE [branch |-> "newton"]
         @@ NewtonFrom(d, u, CastToF64(ModesFirst(d)), F64One, 0)

\* the quantile with the boundary tests left out
InverseUnguarded(d, u, assertions) ==
    IF ~ShouldContain(assertions, u)
    THEN [branch |-> "should"] @@ Ended("panic", 0, 0)
    ELSE InverseRegime(d, u, assertions)

\* Inverse::inverse(&self, p) in a build with or without debug assertions:
\* [ends, value, branch, loops]
Inverse(d, u, assertions) ==
    IF ~ShouldContain(assertions, u)
    THEN [branch |-> "should"] @@ Ended("panic", 0, 0)
    ELSE IF EqF64(u, F64Zero(0)) THEN [branch |-> "zero"] @@ Ended("return", 0, 0)
    ELSE IF EqF64(u, F64One) THEN [branch |-> "one"] @@ Ended("return", d.n, 0)
    ELSE InverseRegime(d, u, assertions)

\* what the caller of a summation or of inverse gets
Outcome(r) ==
    CASE r.ends = "return" -> r.value
      [] r.ends = "wrapped" -> NatSub(NatShl(NatOf(1), W64), NatOf(0 - r.value))
      [] r.ends = "panic" -> Panic
      [] r.ends = "runs_on" -> RunsOn

-----------------------------------------------------------------------------
(* The evaluations of a Binomial: one distribution(x), one inverse(p), or  *)
(* inverse(distribution(x)).                                               *)

\* Binomial::new arguments: the trial count and the success probability
BinomialParams ==
    { <<5, Dyadic(1, 0 - 2)>>, <<4, Dyadic(7, 0 - 3)>>, <<6, Dyadic(1, 0 - 2)>>,
      <<3, Dyadic(1, 0 - 1)>>, <<2, Dyadic(1, 0 - 3)>>, <<7, Dyadic(3, 0 - 2)>>,
      <<1, Dyadic(3, 0 - 2)>>,
      <<1000, Dyadic(1, 0 - 60)>>, <<1000, Dyadic(1, 0 - 1)>>,
      <<2000, Dyadic(1, 0 - 54)>>, <<1200, Dyadic(1, 0 - 2)>> }

\* Binomial::with_failure arguments: the trial count and the failure
\* probability; 0.1 is its nearest f64, and 1.0 - 2^-60 is 1.0
BinomialFailureParams ==
    { <<5, F64Lit(<<6554, 13107, 26214, 204>>, 0 - 56)>>,
      <<3, Dyadic(1, 0 - 60)>>, <<4, Dyadic(1, 0 - 2)>>,
      <<1000, Dyadic(1, 0 - 60)>> }

\* the regime a target strictly between 0 and 1 falls in
Regime(d) ==
    IF d.n < 1000 THEN "summation"
    ELSE IF LtF64(CastToF64(80), d.npq) THEN "normal" ELSE "newton"

\* j halves as an f64: j / 2
HalvesF64(j) ==
    IF j < 0 THEN RoundF64(1, NatOf(0 - j), 0 - 1)
    ELSE RoundF64(0, NatOf(j), 0 - 1)

\* the arguments x of distribution(x), in halves: -1.0, -0.5, 0.0, 0.5, ...,
\* n + 1, n + 1.5
Arguments(d) ==
    IF ~d.made THEN {}
    ELSE IF d.n < 1000 THEN (0 - 2)..(2 * d.n + 3)
    ELSE {0 - 2, 0 - 1, 0, 1, 2 * d.n, 2 * d.n + 1, 2 * d.n + 2, 2 * d.n + 3}

\* the target probabilities of inverse(p); those outside [0, 1] are asked
\* of the Binomials the summation serves
Targets(d) ==
    IF ~d.made THEN {}
    ELSE
    {F64Zero(0), F64One, Dyadic(1, 0 - 1), Dyadic(1, 0 - 2), Dyadic(3, 0 - 2),
     Dyadic(1, 0 - 4), Dyadic(5, 0 - 3)}
    \cup (IF d.n < 1000
          THEN {Distribution(d, CastToF64(k)) : k \in 0..d.n}
               \cup {Dyadic(1, 0 - 20), Dyadic(1023, 0 - 10),
                     F64Lit(<<1, 0, 0, 128>>, 0 - 54)}  \* 0.25 + 2^-54
               \* outside [0, 1]: 1.5, -0.5, 1.0 + 2^-52 and NaN
               \cup {Dyadic(3, 0 - 1), NegF64(Dyadic(1, 0 - 1)),
                     SumF64(F64One, Dyadic(1, 0 - 52)), F64NaN}
          ELSE {})

\* the targets whose evaluation stays within the modelled arithmetic: the
\* Gaussian quantile away from its logarithmic tails, and Newton's method
\* on the masses the model evaluates
Evaluable(d, u) ==
    \/ d.n < 1000
    \/ LeF64(u, F64Zero(0))
    \/ LeF64(F64One, u)
    \/ IF LtF64(CastToF64(80), d.npq)
       THEN LeF64(AbsF64(DiffF64(u, Dyadic(1, 0 - 1))), SPLIT1)
       ELSE d.q = F64One

BinomialCreate(n, p) ==
    /\ ~binom.made
    /\ LtF64(F64Zero(0), p) /\ LtF64(p, F64One)
    /\ binom' = BinomialNew(n, p)
    /\ asked' = NoCall
    /\ UNCHANGED <<genVars, quantityVars, samplerVars, defaultVars, drawVars, callVars>>

BinomialCreateWithFailure(n, q) ==
    /\ ~binom.made
    /\ LtF64(F64Zero(0), q) /\ LtF64(q, F64One)
    /\ binom' = BinomialWithFailure(n, q)
    /\ asked' = NoCall
    /\ UNCHANGED <<genVars, quantityVars, samplerVars, defaultVars, drawVars, callVars>>

\* distribution(x) for x = j / 2
AskDistribution(j) ==
    /\ binom.made /\ asked.op = "none"
    /\ asked' = [op |-> "distribution", chained |-> FALSE, x |-> j,
                 u |-> Distribution(binom, HalvesF64(j)),
                 branch |-> "", loops |-> 0, value |-> 0, ends |-> "return"]
    /\ UNCHANGED <<genVars, quantityVars, samplerVars, defaultVars, drawVars, callVars, binom>>

\* inverse(p), on a target of its own or, chained, on the probability that
\* distribution(x) has just returned: inverse(distribution(x))
AskInverse(u, assertions) ==
    /\ binom.made
    /\ asked.op = "none" \/ (asked.op = "distribution" /\ u = asked.u)
    /\ Evaluable(binom, u)
    /\ asked' = [op |-> "inverse", chained |-> asked.op = "distribution",
                 x |-> IF asked.op = "distribution" THEN asked.x ELSE 0,
                 u |-> u, assertions |-> assertions]
                @@ Inverse(binom, u, assertions)
    /\ UNCHANGED <<genVars, quantityVars, samplerVars, defaultVars, drawVars, callVars, binom>>

\* the probability a distribution(x) has just returned
Returned == IF asked.op = "distribution" THEN {asked.u} ELSE {}

InitBinomial ==
    BinomialIdle /\ DrawIdle /\ CallIdle /\ GenInit /\ QuantityIdle /\ SamplerIdle /\ DefaultInit

NextBinomial ==
    \/ \E np \in BinomialParams : BinomialCreate(np[1], np[2])
    \/ \E nq \in BinomialFailureParams : BinomialCreateWithFailure(nq[1], nq[2])
    \/ \E j \in Arguments(binom) : AskDistribution(j)
    \/ \E u \in Targets(binom) \cup Returned, assertions \in BOOLEAN :
          AskInverse(u, assertions)

SpecBinomial == InitBinomial /\ [][NextBinomial]_vars


-----------------------------------------------------------------------------
(* Claims on the Binomial quantile *)

\* 1 - p without rounding, as man * 2^exp
ExactQ(d) ==
    [man |-> NatSub(NatShl(NatOf(1), 0 - d.p.exp), d.p.man), exp |-> d.p.exp]

\* cdf >= u for an exact cdf = man * 2^exp and an f64 u
DyadicReaches(cdf, u) ==
    NatCmp(NatShl(cdf.man, cdf.exp - Min(cdf.exp, u.exp)),
           NatShl(u.man, u.exp - Min(cdf.exp, u.exp))) >= 0

\* P(X <= k) >= u for X binomial with n trials and success probability p,
\* in exact arithmetic
CdfReaches(d, k, u) ==
    DyadicReaches(IncBetaExact(ExactQ(d), d.n - k, k + 1), u)

SmallestK(d, u) ==
    CHOOSE k \in 0..d.n :
        CdfReaches(d, k, u) /\ \A j \in 0..(k - 1) : ~CdfReaches(d, j, u)

\* an inverse(p) with 0 < p < 1 has been answered
AnsweredInside ==
    /\ asked.op = "inverse"
    /\ LtF64(F64Zero(0), asked.u) /\ LtF64(asked.u, F64One)

\* C7: for n < 1000 and a target p with 0 < p < 1, inverse(p) is the
\* smallest k in 0..n with P(X <= k) >= p, found by the bottom-up summation
\* when p <= distribution(n / 2) and by the top-down summation otherwise.
C7_SmallestOutcome ==
    (AnsweredInside /\ Regime(binom) = "summation") =>
        /\ asked.ends = "return"
        /\ asked.value = SmallestK(binom, asked.u)
        /\ asked.branch =
             IF LeF64(asked.u, Distribution(binom, CastToF64(binom.n \div 2)))
             THEN "bottom_up" ELSE "top_down"

\* C8: for n >= 1000, in the normal and in the Newton regime,
\* inverse(distribution(x)) = x for every whole x in 0..n.
C8_RoundTrip ==
    (asked.op = "inverse" /\ asked.chained /\ binom.n >= 1000
        /\ asked.x % 2 = 0 /\ (asked.x \div 2) \in 0..binom.n)
        => asked.value = asked.x \div 2

\* C10: inverse(0) is 0 and inverse(1) is n whatever n and p are; both are
\* answered before a regime is chosen, without a pass through any loop.
C10_Boundaries ==
    asked.op = "inverse" =>
        /\ EqF64(asked.u, F64Zero(0)) =>
             /\ asked.ends = "return" /\ asked.value = 0
             /\ asked.branch = "zero" /\ asked.loops = 0
        /\ EqF64(asked.u, F64One) =>
             /\ asked.ends = "return" /\ asked.value = binom.n
             /\ asked.branch = "one" /\ asked.loops = 0

\* inverse(1.0) answered n for a Binomial that Newton's method serves
C10_Witness ==
    /\ asked.op = "inverse" /\ EqF64(asked.u, F64One)
    /\ Regime(binom) = "newton" /\ binom.n = 2000
    /\ asked.value = 2000

\* C11: distribution is a step function of its argument: 0 below 0, 1 from
\* n on, and in between its value at the whole part of the argument, so
\* that distribution(k + 0.5) = distribution(k).
C11_StepFunction ==
    asked.op = "distribution" =>
        /\ asked.x < 0 => asked.u = F64Zero(0)
        /\ asked.x >= 2 * binom.n => asked.u = F64One
        /\ (asked.x >= 0 /\ asked.x < 2 * binom.n) =>
             asked.u = Distribution(binom, CastToF64(asked.x \div 2))

\* distribution(2.5) of a Binomial of 5 trials, strictly between the
\* values at 1 and at 3
C11_Witness ==
    /\ asked.op = "distribution" /\ asked.x = 5 /\ binom.n = 5
    /\ LtF64(Distribution(binom, CastToF64(1)), asked.u)
    /\ LtF64(asked.u, Distribution(binom, CastToF64(3)))
-----------------------------------------------------------------------------
(* Categorical: new, cdf and inv_cdf.  Indices of the code start at 0,     *)
(* those of the sequences here at 1.                                       *)

\* const EPSILON: f64 = 1e-12
EPSILON == F64Lit(<<27153, 603, 24166, 140>>, 0 - 92)

\* p.iter().all(|&p| p >= 0.0 && p <= 1.0) &&
\*     (p.iter().fold(0.0, |sum, &p| sum + p) - 1.0).abs() < EPSILON
IsProbabilityVector(p) ==
    /\ \A i \in 1..Len(p) : LeF64(F64Zero(0), p[i]) /\ LeF64(p[i], F64One)
    /\ LtF64(AbsF64(DiffF64(SumLeft(p, 1, F64Zero(0)), F64One)), EPSILON)

\* for i in 1..(k - 1) { cumsum[i] += cumsum[i - 1]; }
\* With k = 0 the bound k - 1 is below zero in usize: a build that checks
\* overflow panics at the subtraction, and one that does not runs the body
\* on the empty vector and panics at its index.
RECURSIVE CumsumFrom(_, _)
CumsumFrom(cumsum, i) ==
    IF Len(cumsum) = 0 THEN Panic
    ELSE IF i > Len(cumsum) - 1 THEN cumsum
    ELSE CumsumFrom([cumsum EXCEPT ![i] = SumF64(cumsum[i], cumsum[i - 1])],
                    i + 1)

\* Categorical::new(p) past its should!, with cumsum[k - 1] = 1.0
CategoricalNew(p) ==
    IF Len(p) = 0 THEN Panic
    ELSE [k |-> Len(p), p |-> p,
          cumsum |-> [CumsumFrom(p, 2) EXCEPT ![Len(p)] = F64One]]

\* the entry of cumsum for a count that is below k
CumsumAt(d, count) ==
    IF count >= d.k THEN F64One ELSE d.cumsum[count + 1]

\* Categorical::cdf(x)
CategoricalCdf(d, x) ==
    IF LtF64(x, F64Zero(0)) THEN F64Zero(0) ELSE CumsumAt(d, AsCount(x))

\* the loop of Categorical::median over cumsum from index i, in halves:
\* (2 * i - 1) as f64 / 2.0 where the sum is 0.5, i as f64 where it is above;
\* past the last index the code is at unreachable!()
RECURSIVE MedianFrom(_, _)
MedianFrom(d, i) ==
    IF i >= d.k THEN UsizeOverflow
    ELSE IF EqF64(d.cumsum[i + 1], Dyadic(1, 0 - 1))
    THEN (IF i = 0 THEN UsizeOverflow ELSE 2 * i - 1)
    ELSE IF LtF64(Dyadic(1, 0 - 1), d.cumsum[i + 1]) THEN 2 * i
    ELSE MedianFrom(d, i + 1)

\* Categorical::median(&self), in halves
CategoricalMedian(d) ==
    IF LtF64(Dyadic(1, 0 - 1), d.p[1]) THEN 0
    ELSE IF EqF64(d.p[1], Dyadic(1, 0 - 1)) THEN 1
    ELSE MedianFrom(d, 0)

\* self.p.iter().rposition(|&p| p > 0.0)
RECURSIVE RPositionFrom(_, _)
RPositionFrom(p, i) ==
    IF i = 0 THEN 0 - 1
    ELSE IF LtF64(F64Zero(0), p[i]) THEN i - 1
    ELSE RPositionFrom(p, i - 1)

\* self.cumsum.iter().position(|&sum| sum > 0.0 && sum >= p), or else the
\* last category of a probability above zero
RECURSIVE PositionFrom(_, _, _)
PositionFrom(d, p, i) ==
    IF i > d.k THEN RPositionFrom(d.p, d.k)
    ELSE IF LtF64(F64Zero(0), d.cumsum[i]) /\ LeF64(p, d.cumsum[i]) THEN i - 1
    ELSE PositionFrom(d, p, i + 1)

\* Categorical::inv_cdf(p): should!(0.0 <= p && p <= 1.0), then the search
CategoricalInvCdf(d, p, assertions) ==
    IF ~ShouldContain(assertions, p) THEN Panic ELSE PositionFrom(d, p, 1)

-----------------------------------------------------------------------------
(* Triangular: new and distribution.                                       *)

\* should!(a < b && a <= c && c <= b)
TriangularValid(a, b, c) == LtF64(a, b) /\ LeF64(a, c) /\ LeF64(c, b)

TriangularNew(a, b, c) == [a |-> a, b |-> b, c |-> c]

\* let factor = 2.0 / (b - a); match x.partial_cmp(&c) { ... }
TriangularInside(d, x, factor) ==
    IF x.kind = "nan" THEN F64NaN
    ELSE IF LtF64(x, d.c)
    THEN QuotF64(ProdF64(factor, DiffF64(x, d.a)), DiffF64(d.c, d.a))
    ELSE IF LtF64(d.c, x)
    THEN QuotF64(ProdF64(factor, DiffF64(d.b, x)), DiffF64(d.b, d.c))
    ELSE factor

\* Triangular::distribution(x)
TriangularDistribution(d, x) ==
    IF LtF64(x, d.a) \/ LtF64(d.b, x) THEN F64Zero(0)
    ELSE TriangularInside(d, x, QuotF64(CastToF64(2), DiffF64(d.b, d.a)))

-----------------------------------------------------------------------------
(* Gaussian::inv_cdf with a mean and a standard deviation.                 *)

GaussianNew(mu, sigma) == [mu |-> mu, sigma |-> sigma]

\* return self.mu + self.sigma * q * poly(&A, x) / poly(&B, x)
InvCdfCentral(d, q, x) ==
    [branch |-> "central",
     value |-> SumF64(d.mu,
                      QuotF64(ProdF64(ProdF64(d.sigma, q), Poly(GaussianA, x)),
                              Poly(GaussianB, x)))]

\* if x <= SPLIT2 { ... } else { ... }; self.mu + self.sigma * if q < 0.0 { -x } else { x }
InvCdfTail(d, q, x) ==
    [branch |-> IF LeF64(x, SPLIT2) THEN "near" ELSE "far",
     value |-> SumF64(d.mu,
                      ProdF64(d.sigma, GaussianSigned(q, GaussianTail(x))))]

\* let q = p - 0.5; if (if q < 0.0 { -q } else { q }) <= SPLIT1 { ... }
InvCdfSplit(d, p, q) ==
    IF LeF64(IF LtF64(q, F64Zero(0)) THEN NegF64(q) ELSE q, SPLIT1)
    THEN InvCdfCentral(d, q, DiffF64(CONST1, ProdF64(q, q)))
    ELSE InvCdfTail(d, q,
             SqrtF64(NegF64(LnF64(IF LtF64(q, F64Zero(0)) THEN p
                                  ELSE DiffF64(F64One, p)))))

\* the two tests of p exchanged
InvCdfMirrored(d, p, assertions) ==
    IF ~ShouldContain(assertions, p) THEN Panic
    ELSE IF LeF64(F64One, p) THEN [branch |-> "low", value |-> F64Inf(1)]
    ELSE IF LeF64(p, F64Zero(0)) THEN [branch |-> "high", value |-> F64Inf(0)]
    ELSE InvCdfSplit(d, p, DiffF64(p, Dyadic(1, 0 - 1)))

\* Gaussian::inv_cdf(p) in a build with or without debug assertions:
\* should!(0.0 <= p && p <= 1.0), then the two ends, then the split
InvCdf(d, p, assertions) ==
    IF ~ShouldContain(assertions, p) THEN Panic
    ELSE IF LeF64(p, F64Zero(0)) THEN [branch |-> "low", value |-> F64Inf(1)]
    ELSE IF LeF64(F64One, p) THEN [branch |-> "high", value |-> F64Inf(0)]
    ELSE InvCdfSplit(d, p, DiffF64(p, Dyadic(1, 0 - 1)))
-----------------------------------------------------------------------------
(* The samplers that read the source once: what sample returns when         *)
(* source.read::<f64>() gives u, and the read itself on a XorshiftPlus      *)
(* source.                                                                  *)

\* Laplace::inverse(p): should!(0.0 <= p && p <= 1.0), then the two halves
LaplaceInverse(d, p, assertions) ==
    IF ~ShouldContain(assertions, p) THEN Panic
    ELSE IF LtF64(Dyadic(1, 0 - 1), p)
    THEN IF EqF64(p, F64One) THEN F64Inf(0)
         ELSE DiffF64(d.mu, ProdF64(d.b,
                  LnF64(DiffF64(CastToF64(2), ProdF64(CastToF64(2), p)))))
    ELSE IF EqF64(p, F64Zero(0)) THEN F64Inf(1)
         ELSE SumF64(d.mu, ProdF64(d.b, LnF64(ProdF64(CastToF64(2), p))))

\* Logistic::inverse(p): should!(0.0 <= p && p <= 1.0), then
\* self.mu - self.s * (1.0 / p - 1.0).ln()
LogisticInverse(d, p, assertions) ==
    IF ~ShouldContain(assertions, p) THEN Panic
    ELSE DiffF64(d.mu, ProdF64(d.s, LnF64(DiffF64(QuotF64(F64One, p), F64One))))

\* Triangular::inverse(p) where p is neither 0 nor 1
TriangularBetween(d, p, p0) ==
    IF LtF64(p, p0)
    THEN SumF64(SqrtF64(ProdF64(ProdF64(DiffF64(d.b, d.a), DiffF64(d.c, d.a)),
                                p)), d.a)
    ELSE IF LtF64(p0, p)
    THEN DiffF64(d.b,
                 SqrtF64(ProdF64(ProdF64(DiffF64(d.b, d.a), DiffF64(d.b, d.c)),
                                 DiffF64(F64One, p))))
    ELSE IF EqF64(p, p0) THEN d.c
    ELSE F64NaN

\* Triangular::inverse(p): should!(0.0 <= p && p <= 1.0), then the ends
\* and the two branches
TriangularInverse(d, p, assertions) ==
    IF ~ShouldContain(assertions, p) THEN Panic
    ELSE IF EqF64(p, F64Zero(0)) THEN d.a
    ELSE IF EqF64(p, F64One) THEN d.b
    ELSE TriangularBetween(d, p, QuotF64(DiffF64(d.c, d.a), DiffF64(d.b, d.a)))

\* Bernoulli::new(p) on f64
BernoulliOf(p) ==
    [kind |-> "bernoulli", p |-> p, q |-> DiffF64(F64One, p),
     pq |-> ProdF64(p, DiffF64(F64One, p))]

\* Bernoulli::with_failure(q) past its should!
BernoulliWithFailure(q) ==
    [kind |-> "bernoulli", p |-> DiffF64(F64One, q), q |-> q,
     pq |-> ProdF64(DiffF64(F64One, q), q)]

\* sample(&self, source) of the samplers whose body reads the source once,
\* u being what the read gives: Binomial, Categorical, Laplace, Logistic and
\* Triangular hand it to their inverse
SampleWith(d, u, assertions) ==
    CASE d.kind = "uniform" -> SumF64(d.a, ProdF64(DiffF64(d.b, d.a), u))
      [] d.kind = "bernoulli" -> IF LtF64(u, d.q) THEN 0 ELSE 1
      [] d.kind = "binomial" ->
            Outcome(Inverse(d.binomial, u, assertions))
      [] d.kind = "categorical" ->
            CategoricalInvCdf(d.categorical, u, assertions)
      [] d.kind = "exponential" -> QuotF64(NegF64(LnF64(u)), d.lambda)
      [] d.kind = "laplace" -> LaplaceInverse(d, u, assertions)
      [] d.kind = "logistic" -> LogisticInverse(d, u, assertions)
      [] d.kind = "triangular" -> TriangularInverse(d, u, assertions)

\* the distributions sampled that way
OnceDists ==
    { [kind |-> "uniform", a |-> WholeF64(0 - 1), b |-> CastToF64(3)],
      BernoulliOf(Dyadic(1, 0 - 2)),
      [kind |-> "binomial", binomial |-> BinomialNew(3, Dyadic(1, 0 - 1))],
      [kind |-> "categorical",
       categorical |-> CategoricalNew(<<Dyadic(1, 0 - 2), F64Zero(0),
                                        Dyadic(3, 0 - 2)>>)],
      [kind |-> "exponential", lambda |-> CastToF64(2)],
      [kind |-> "laplace", mu |-> F64One, b |-> CastToF64(2)],
      [kind |-> "logistic", mu |-> F64One, s |-> CastToF64(2)],
      [kind |-> "triangular", a |-> F64One, b |-> CastToF64(5),
       c |-> CastToF64(3)] }

\* the 15-bit limb j (1 the lowest) of a 64-bit word
WordLimb(w, j) ==
    LET v[i \in 0..15] ==
            IF i = 0 THEN 0
            ELSE v[i - 1] * 2 + (IF 15 * j - i < W64 THEN w[15 * j - i] ELSE 0)
    IN  v[15]

\* a 64-bit word as a natural number
WordNat(w) ==
    Trim(<<WordLimb(w, 1), WordLimb(w, 2), WordLimb(w, 3), WordLimb(w, 4),
           WordLimb(w, 5)>>)

\* impl Quantity for f64 in f64 arithmetic:
\* chunk as f64 / (::std::u64::MAX as f64 + 1.0)
QuantityF64(c) ==
    QuotF64(RoundF64(0, WordNat(c), 0),
            SumF64(RoundF64(0, UsizeMax, 0), F64One))

\* source.read::<f64>() on a XorshiftPlus source: the state the read leaves
\* and the quantity made of the chunk read
SourceReadF64(state) ==
    LET r == XorshiftPlusRead(state)
    IN  [state |-> r.state, value |-> QuantityF64(r.value)]

\* a sample body that reads the source twice and makes its value of the
\* second read
ReadTwice(d, state, assertions) ==
    LET skipped == SourceReadF64(state)
        r == SourceReadF64(skipped.state)
    IN  [self |-> d, state |-> r.state, read |-> r.value,
         value |-> SampleWith(d, r.value, assertions)]

\* a sample body that keeps what it has drawn in the distribution
ReadKeeping(d, state, assertions) ==
    LET r == SourceReadF64(state)
    IN  [self |-> IF d.kind = "uniform"
                  THEN [d EXCEPT !.b = SampleWith(d, r.value, assertions)]
                  ELSE IF d.kind = "bernoulli" THEN [d EXCEPT !.q = r.value]
                  ELSE d,
         state |-> r.state, read |-> r.value,
         value |-> SampleWith(d, r.value, assertions)]

\* sample(&self, source) of a sampler whose body holds one
\* source.read::<f64>(): the receiver and the source as the call leaves
\* them, the quantity read and the value returned
ReadOnce(d, state, assertions) ==
    LET r == SourceReadF64(state)
    IN  [self |-> d, state |-> r.state, read |-> r.value,
         value |-> SampleWith(d, r.value, assertions)]

-----------------------------------------------------------------------------
(* Sampling: gamma::sample (Marsaglia and Tsang), and the samplers that     *)
(* call it.  One step of the model is one draw from the source together    *)
(* with everything the code computes up to its next draw.                  *)

\* 1.0 / 3.0
OneThird == QuotF64(CastToF64(1), CastToF64(3))

\* let d = k - 1.0 / 3.0
GammaD(k) == DiffF64(k, OneThird)

\* let c = (1.0 / 3.0) / d.sqrt()
GammaC(k) == QuotF64(OneThird, SqrtF64(GammaD(k)))

\* x = x * x; v = v * v * v, for a v above zero
GammaProposal(z, v) ==
    [outcome |-> "proposal", x |-> ProdF64(z, z), v |-> ProdF64(ProdF64(v, v), v)]

\* let mut v = 1.0 + c * x; if v <= 0.0 { continue; }
GammaPropose(z, v) ==
    IF LeF64(v, F64Zero(0))
    THEN [outcome |-> "negative", x |-> F64Zero(0), v |-> F64Zero(0)]
    ELSE GammaProposal(z, v)

\* the normal draw z of one pass of the outer loop
GammaNormal(c, z) == GammaPropose(z, SumF64(F64One, ProdF64(c, z)))

\* u < 1.0 - 0.0331 * x * x
GammaFast(x, u) ==
    LtF64(u, DiffF64(F64One, ProdF64(ProdF64(SQUEEZE, x), x)))

\* u.ln() < 0.5 * x + d * (1.0 - v + v.ln())
GammaExact(d, x, v, u) ==
    LtF64(LnF64(u),
          SumF64(ProdF64(Dyadic(1, 0 - 1), x),
                 ProdF64(d, SumF64(DiffF64(F64One, v), LnF64(v)))))

\* one uniform draw u of the inner loop: redrawn when zero, else accepted
\* by the first or by the second test, else the proposal is given up
GammaUniform(d, x, v, u) ==
    IF EqF64(u, F64Zero(0)) THEN "zero"
    ELSE IF GammaFast(x, u) THEN "fast"
    ELSE IF GammaExact(d, x, v, u) THEN "exact"
    ELSE "rejected"

\* the inner loop left by `break` only for a proposal that a uniform has
\* accepted: a rejected proposal is kept and another uniform is drawn
GammaAfterHeld(outcome) ==
    IF outcome \in {"zero", "rejected"} THEN "uniform" ELSE "return"

\* a zero uniform sends the sampler back to the normal draw
GammaAfterRestart(outcome) ==
    IF outcome \in {"zero", "rejected"} THEN "normal" ELSE "return"

\* where the loops stand after a uniform draw: `continue` of the inner loop
\* on zero, `return` on acceptance, `break` to the outer loop otherwise
GammaAfter(outcome) ==
    IF outcome = "zero" THEN "uniform"
    ELSE IF outcome = "rejected" THEN "normal"
    ELSE "return"

-----------------------------------------------------------------------------
(* The distributions sampled and the values the source supplies.           *)

GammaNew(k, theta) == [kind |-> "gamma", k |-> k, theta |-> theta]

BetaNew(alpha, beta, a, b) ==
    [kind |-> "beta", alpha |-> alpha, beta |-> beta, a |-> a, b |-> b]

\* Pert::new(a, b, c): alpha = (4.0 * b + c - 5.0 * a) / (c - a),
\* beta = (5.0 * c - a - 4.0 * b) / (c - a)
PertNew(a, b, c) ==
    [kind |-> "pert", a |-> a, b |-> b, c |-> c,
     alpha |-> QuotF64(DiffF64(SumF64(ProdF64(CastToF64(4), b), c),
                               ProdF64(CastToF64(5), a)),
                       DiffF64(c, a)),
     beta |-> QuotF64(DiffF64(DiffF64(ProdF64(CastToF64(5), c), a),
                              ProdF64(CastToF64(4), b)),
                      DiffF64(c, a))]

\* the distributions whose sample goes through gamma::sample
GammaDists ==
    { GammaNew(F64One, F64One),
      GammaNew(F64Lit(<<0, 0, 0, 160>>, 0 - 51), F64Lit(<<0, 0, 0, 128>>, 0 - 51)),  \* 2.5, 2.0
      GammaNew(F64Lit(<<0, 0, 0, 128>>, 0 - 53), F64One),  \* 0.5, 1.0
      BetaNew(F64One, F64Lit(<<0, 0, 0, 128>>, 0 - 51),
              F64Lit(<<0, 0, 0, 224>>, 0 - 50), F64Lit(<<0, 0, 0, 168>>, 0 - 47)),  \* 1.0, 2.0, 7.0, 42.0
      BetaNew(F64Lit(<<0, 0, 0, 128>>, 0 - 53), F64One, F64Zero(0), F64One),  \* 0.5, 1.0, 0.0, 1.0
      BetaNew(F64Lit(<<0, 0, 0, 128>>, 0 - 63), F64Lit(<<0, 0, 0, 128>>, 0 - 63),
              F64Zero(0), F64One),  \* 2^-11, 2^-11, 0.0, 1.0
      PertNew(F64Zero(0), F64Lit(<<0, 0, 0, 128>>, 0 - 53), F64One) }  \* 0.0, 0.5, 1.0

\* the standard normal values gaussian::sample hands out: -2.5, 0.0, 1.5
NormalDraws ==
    {NegF64(F64Lit(<<0, 0, 0, 160>>, 0 - 51)), F64Zero(0), F64Lit(<<0, 0, 0, 192>>, 0 - 52)}

\* the values of source.read::<f64>(): 0.0, 0.25, 0.875, 0.984375
UniformDraws ==
    {F64Zero(0), F64Lit(<<0, 0, 0, 128>>, 0 - 54), F64Lit(<<0, 0, 0, 224>>, 0 - 53),
     F64Lit(<<0, 0, 0, 252>>, 0 - 53)}

\* the tallies of draws count up to here and stay
MaxTally == 2

Tally(n) == Min(n + 1, MaxTally)

-----------------------------------------------------------------------------
(* The sample call in progress.                                            *)
(*   pc      "normal": about to call gaussian::sample; "uniform": about to *)
(*           read a uniform in the inner loop; "power": about to read the  *)
(*           uniform that is raised to 1 / k; "done": returned             *)
(*   stage   1 or 2: the first or the second gamma::sample of Beta, Pert   *)
(*   shape   the shape that stage was called with                          *)
(*   k       the shape of the call whose loop runs (shape, or 1 + shape)   *)
(*   d, c    the constants of that loop                                    *)
(*   depth   how many gamma::sample calls are on the stack below this one  *)
(*   x, v    the proposal held: x squared and v cubed                      *)
(*   inner   what the recursive call returned                              *)
(*   first   what the first stage returned                                 *)
(*   last    the last draw and what came of it                             *)

\* the shape handed to gamma::sample in a stage
StageShape(d, stage) ==
    IF d.kind = "gamma" THEN d.k
    ELSE IF stage = 1 THEN d.alpha ELSE d.beta

\* the constants of the loop that runs for a shape k >= 1
GammaLoopOf(k) == [k |-> k, d |-> GammaD(k), c |-> GammaC(k)]

\* if k < 1.0 the loop runs in the call sample(1.0 + k, source)
GammaLoop(shape) ==
    GammaLoopOf(IF LtF64(shape, F64One) THEN SumF64(F64One, shape) ELSE shape)

\* self.a + (self.b - self.a) * x / (x + y); Pert has c for b
BetaValue(d, x, y) ==
    SumF64(d.a,
           QuotF64(ProdF64(DiffF64(IF d.kind = "pert" THEN d.c ELSE d.b, d.a),
                           x),
                   SumF64(x, y)))

\* sample(1.0 + k, source) * source.read::<f64>().powf(1.0 / k)
GammaPower(g, u, shape) ==
    ProdF64(g, PowfF64(u, QuotF64(F64One, shape)))

-----------------------------------------------------------------------------
(* The arithmetic of the sampler, tabulated once at the arguments the      *)
(* distributions and the source values above lead to.                      *)

Shapes == {StageShape(d, stage) : d \in GammaDists, stage \in 1..2}

\* the loop constants for each shape
Loops == [shape \in Shapes |-> GammaLoop(shape)]

\* a normal draw z in the loop l of a shape, the proposal p it gives and
\* the d * v the loop returns if the proposal is accepted
Pass(shape, l, z, p) ==
    [shape |-> shape, d |-> l.d, c |-> l.c, x |-> p.x, v |-> p.v,
     g |-> ProdF64(l.d, p.v)]

Passes ==
    {Pass(sz[1], sz[2], sz[3], GammaNormal(sz[2].c, sz[3])) :
        sz \in {<<shape, Loops[shape], z>> : shape \in Shapes,
                                            z \in NormalDraws}}

\* x and v after a normal draw z in a loop with the constant c
Proposed ==
    [c \in {r.c : r \in Passes}, z \in NormalDraws |-> GammaNormal(c, z)]

\* the d, x and v a loop can hold
Held == {<<r.d, r.x, r.v>> : r \in Passes}

\* what comes of a uniform draw u for the d, x and v held
Tested ==
    [h \in Held, u \in UniformDraws |-> GammaUniform(h[1], h[2], h[3], u)]

\* return d * v
Accepted == [h \in Held |-> ProdF64(h[1], h[3])]

\* what a call for a shape below 1 can hold when it reads its uniform
PowerKeys ==
    {<<ru[1].g, ru[2], ru[1].shape>> :
        ru \in {r \in Passes : LtF64(r.shape, F64One)} \X UniformDraws}

Powered == [p \in PowerKeys |-> GammaPower(p[1], p[2], p[3])]

\* the shapes and what gamma::sample can return for them
ResultsOf(r) ==
    IF LtF64(r.shape, F64One)
    THEN {<<r.shape, GammaPower(r.g, u, r.shape)>> : u \in UniformDraws}
    ELSE {<<r.shape, r.g>>}

Results == UNION {ResultsOf(r) : r \in Passes}

\* a distribution with the draws its sample call can get
ValueKeysOf(results, zero) ==
    {<<dxy[1], IF dxy[1].kind = "gamma" THEN zero ELSE dxy[2][2],
       dxy[3][2]>> :
        dxy \in {k \in GammaDists \X results \X results :
                   /\ k[2][1] = StageShape(k[1], 1)
                   /\ k[3][1] = StageShape(k[1], 2)}}

ValueKeys == ValueKeysOf(Results, F64Zero(0))

\* what the sample call returns for the draws x and y of its stages: Gamma
\* scales its one draw by theta
SampleValue(d, x, y) ==
    IF d.kind = "gamma" THEN ProdF64(d.theta, y) ELSE BetaValue(d, x, y)

Valued == [r \in ValueKeys |-> SampleValue(r[1], r[2], r[3])]

\* the same through the table where the table holds the draws
ValueOf(d, x, y) ==
    IF <<d, x, y>> \in ValueKeys THEN Valued[<<d, x, y>>]
    ELSE SampleValue(d, x, y)

-----------------------------------------------------------------------------
(* The steps of a sample call.                                             *)

\* the call has reached its loop
Entered(s, shape, l, depth) ==
    [s EXCEPT !.pc = "normal",
              !.shape = shape,
              !.k = l.k, !.d = l.d, !.c = l.c,
              !.depth = depth,
              !.deepest = Max(@, depth),
              !.entered = @ + depth + 1]

\* a recursive call that recurs once more
GammaEnterDeep(s, shape) ==
    Entered(s, shape, Loops[shape], IF LtF64(shape, F64One) THEN 2 ELSE 0)

\* gamma::sample(k, source) up to its first draw: if k < 1.0 the call of
\* sample(1.0 + k, source) comes first
GammaEnter(s, shape) ==
    Entered(s, shape, Loops[shape], IF LtF64(shape, F64One) THEN 1 ELSE 0)

\* the sample call has returned
SampleReturn(s, x, y) ==
    [s EXCEPT !.pc = "done", !.value = ValueOf(s.dist, x, y)]

\* the outermost gamma::sample of a stage has returned g
StageReturn(s, g) ==
    IF s.dist.kind # "gamma" /\ s.stage = 1
    THEN GammaEnter([s EXCEPT !.stage = 2, !.first = g],
                    StageShape(s.dist, 2))
    ELSE SampleReturn(s, IF s.dist.kind = "gamma" THEN F64Zero(0) ELSE s.first, g)

\* the loop has returned d * v: to the caller, or to the call that
\* multiplies it by a power of one more uniform
GammaReturn(s, g) ==
    IF s.depth = 1
    THEN [s EXCEPT !.pc = "power", !.depth = 0, !.inner = g]
    ELSE StageReturn(s, g)

NewDraw(d) ==
    [pc |-> "idle", dist |-> d, stage |-> 1, shape |-> F64Zero(0),
     k |-> F64Zero(0), d |-> F64Zero(0), c |-> F64Zero(0),
     depth |-> 0, deepest |-> 0, entered |-> 0,
     x |-> F64Zero(0), v |-> F64Zero(0),
     inner |-> F64Zero(0), first |-> F64Zero(0), value |-> F64Zero(0),
     reads |-> 0, normals |-> 0, powers |-> 0,
     last |-> [kind |-> "none", outcome |-> "none"]]

\* d.sample(&mut source) is called
SampleCall(d) ==
    /\ draw.pc = "idle"
    /\ draw' = GammaEnter(NewDraw(d), StageShape(d, 1))
    /\ UNCHANGED <<genVars, quantityVars, samplerVars, defaultVars,
                   binomialVars, callVars>>

\* f64::EPSILON
F64Epsilon == Dyadic(1, 0 - 52)

\* Cauchy::sample, a and b being the two draws of Gaussian::new(0.0, 1.0):
\* self.loc() + self.gamma() * a / (b.abs() + f64::EPSILON)
CauchyWith(d, a, b) ==
    SumF64(d.loc, QuotF64(ProdF64(d.gamma, a), SumF64(AbsF64(b), F64Epsilon)))

\* Lognormal::sample, g being the draw of self.gaussian:
\* self.gaussian.sample(source).exp()
LognormalWith(d, g) == ExpF64(g)

\* the distributions that sample through a Gaussian
NormalDists ==
    { [kind |-> "cauchy", loc |-> F64One, gamma |-> CastToF64(2)],
      [kind |-> "cauchy", loc |-> WholeF64(0 - 3), gamma |-> Dyadic(1, 0 - 1)],
      [kind |-> "lognormal", mu |-> F64Zero(0), sigma |-> F64One] }

\* the state after the normal draw z
AfterNormal(s, p) ==
    [s EXCEPT !.pc = IF p.outcome = "negative" THEN "normal" ELSE "uniform",
              !.x = p.x, !.v = p.v,
              !.normals = Tally(@),
              !.last = [kind |-> "normal", outcome |-> p.outcome]]

\* let mut x = gaussian::sample(source) and the lines down to the inner loop
DrawNormal(z) ==
    /\ draw.pc = "normal"
    /\ draw' = AfterNormal(draw, Proposed[draw.c, z])
    /\ UNCHANGED <<genVars, quantityVars, samplerVars, defaultVars,
                   binomialVars, callVars>>

\* the state after a uniform draw of the inner loop with the given outcome
AfterUniform(s, outcome, after) ==
    IF after = "return"
    THEN GammaReturn([s EXCEPT !.reads = Tally(@),
                               !.last = [kind |-> "uniform",
                                         outcome |-> outcome]],
                     Accepted[<<s.d, s.x, s.v>>])
    ELSE [s EXCEPT !.pc = after,
                   !.reads = Tally(@),
                   !.last = [kind |-> "uniform", outcome |-> outcome]]

\* the inner loop with a rejected proposal kept for the next uniform
InnerLoopHeld(s, outcome) == AfterUniform(s, outcome, GammaAfterHeld(outcome))

\* one pass of the inner loop: let u = source.read::<f64>() and the tests
InnerLoop(s, outcome) == AfterUniform(s, outcome, GammaAfter(outcome))

DrawUniform(u) ==
    /\ draw.pc = "uniform"
    /\ draw' = InnerLoop(draw, Tested[<<draw.d, draw.x, draw.v>>, u])
    /\ UNCHANGED <<genVars, quantityVars, samplerVars, defaultVars,
                   binomialVars, callVars>>

\* the call for a shape below 1 returns g, the product with the power
PowerReturn(s, g) ==
    StageReturn([s EXCEPT !.reads = Tally(@),
                          !.powers = @ + 1,
                          !.last = [kind |-> "power", outcome |-> "none"]],
                g)

\* the uniform that is raised to 1 / k is read, the left factor being there
DrawPower(u) ==
    /\ draw.pc = "power"
    /\ draw' = PowerReturn(draw, Powered[<<draw.inner, u, draw.shape>>])
    /\ UNCHANGED <<genVars, quantityVars, samplerVars, defaultVars,
                   binomialVars, callVars>>

InitGamma ==
    /\ DrawIdle /\ CallIdle /\ BinomialIdle
    /\ GenInit /\ QuantityIdle /\ SamplerIdle /\ DefaultInit

NextGamma ==
    \/ \E d \in GammaDists : SampleCall(d)
    \/ \E z \in NormalDraws : DrawNormal(z)
    \/ \E u \in UniformDraws : DrawUniform(u)
    \/ \E u \in UniformDraws : DrawPower(u)

SpecGamma == InitGamma /\ [][NextGamma]_vars

\* a fair source: wherever a draw is asked for again and again, each of
\* the values the source can supply comes up again and again
SpecGammaFair ==
    /\ SpecGamma
    /\ \A z \in NormalDraws : SF_vars(DrawNormal(z))
    /\ \A u \in UniformDraws : SF_vars(DrawUniform(u))
    /\ \A u \in UniformDraws : WF_vars(DrawPower(u))

-----------------------------------------------------------------------------
(* Claims on the Gamma and Beta samplers *)

\* a sample call has been made and not yet returned
Sampling == draw.pc \in {"normal", "uniform", "power"}

\* the step is a uniform draw of the inner loop with this outcome
UniformStep(outcomes) ==
    /\ draw.pc = "uniform" /\ draw' # draw
    /\ draw'.last.kind = "uniform" /\ draw'.last.outcome \in outcomes

\* C12, as stated: once a normal draw has given v > 0 the sampler keeps x
\* and v and repeats only the uniform draw until a uniform passes one of
\* the two tests; a new normal is drawn only when v <= 0.
C12_KeepsProposal ==
    [][draw.pc = "uniform" =>
          \/ UniformStep({"fast", "exact"})
          \/ draw'.pc = "uniform" /\ draw'.x = draw.x /\ draw'.v = draw.v]_vars

\* C12, amended: a zero uniform is redrawn with x and v kept; a uniform
\* that passes the fast or the exact test returns; a non-zero uniform that
\* fails both gives the proposal up, and the next draw is a new normal in
\* the same call.
C12_RejectedRedrawsNormal ==
    [][draw.pc = "uniform" =>
          \/ /\ UniformStep({"zero"})
             /\ draw'.pc = "uniform" /\ draw'.x = draw.x /\ draw'.v = draw.v
             /\ draw'.normals = draw.normals
          \/ /\ UniformStep({"fast", "exact"})
             /\ draw'.pc # "uniform"
             /\ draw'.pc = "normal" => draw'.stage = draw.stage + 1
          \/ /\ UniformStep({"rejected"})
             /\ draw'.pc = "normal"
             /\ draw'.stage = draw.stage /\ draw'.k = draw.k
             /\ draw'.entered = draw.entered]_vars

\* a proposal with v > 0 has been rejected by a non-zero uniform and the
\* sampler stands before a new normal draw
C12_Witness ==
    /\ draw.pc = "normal"
    /\ draw.last.kind = "uniform" /\ draw.last.outcome = "rejected"
    /\ LtF64(F64Zero(0), draw.v)

\* C13: the call returns as soon as a normal draw with v > 0 is followed by
\* a non-zero uniform that passes one of the two tests, so under a fair
\* source every call returns; a zero uniform is redrawn without a new
\* normal; the number of draws is not bounded.
C13_Terminates ==
    /\ [][draw.pc = "uniform" =>
            /\ UniformStep({"fast", "exact"}) =>
                 \/ draw'.pc \in {"power", "done"}
                 \/ draw'.pc = "normal" /\ draw'.stage = draw.stage + 1
            /\ UniformStep({"zero"}) =>
                 draw'.pc = "uniform" /\ draw'.normals = draw.normals]_vars
    /\ [](Sampling => <>(draw.pc = "done"))

\* a call that has not returned after as many normal draws and as many
\* uniform draws as are counted, the last of them a zero uniform
C13_Witness ==
    /\ Sampling
    /\ draw.normals = MaxTally /\ draw.reads = MaxTally
    /\ draw.last.outcome = "zero"

\* C14: for a shape k below 1 the sampler calls itself exactly once, with
\* the shape 1 + k, which takes the branch without recursion, so the depth
\* never exceeds one; the uniform raised to 1 / k is read after the
\* recursive call has returned.
C14_OneRecursion ==
    draw.pc # "idle" =>
        /\ draw.deepest <= 1 /\ draw.depth <= 1
        /\ draw.depth = 1 =>
             /\ LtF64(draw.shape, F64One)
             /\ draw.k = SumF64(F64One, draw.shape)
             /\ ~LtF64(draw.k, F64One)
             /\ draw.pc \in {"normal", "uniform"}
        /\ draw.pc = "power" =>
             /\ draw.last.kind = "uniform"
             /\ draw.last.outcome \in {"fast", "exact"}
             /\ draw.inner = ProdF64(draw.d, draw.v)
        /\ (draw.pc = "done" /\ draw.dist.kind = "gamma"
               /\ LtF64(draw.dist.k, F64One)) =>
             /\ draw.entered = 2 /\ draw.powers = 1
             /\ draw.last.kind = "power"

\* Gamma of shape 0.5 has returned: one recursive call, one power
C14_Witness ==
    /\ draw.pc = "done" /\ draw.dist.kind = "gamma"
    /\ draw.dist.k = Dyadic(1, 0 - 1)
    /\ draw.entered = 2 /\ draw.powers = 1

\* C15: every value Beta::sample returns lies in [a, b].
C15_WithinInterval ==
    (draw.pc = "done" /\ draw.dist.kind = "beta") =>
        /\ LeF64(draw.dist.a, draw.value)
        /\ LeF64(draw.value, draw.dist.b)
-----------------------------------------------------------------------------
(* Sample calls on a XorshiftPlus source.  The samplers with one read in   *)
(* their body read the source itself; Cauchy and Lognormal draw from a     *)
(* Gaussian.  The calls of Gamma, Beta and Pert are the steps above, one   *)
(* step for each draw of the rejection loop: a uniform is the next read of *)
(* the source, a normal is a Gaussian sample on it.                        *)

\* the reads one Gaussian::sample makes on the source: a fixed number, the
\* Gamma sampler being the only routine without a fixed read count
GaussianReads == 1

\* Gaussian::sample(&self, source): the source after its reads, and the
\* value z it has made of them
GaussianSample(state, z) ==
    [state |-> StateAfter(state, GaussianReads), value |-> z]

\* Cauchy::sample(&self, source): gaussian.sample(source) gives a, then b
CauchySample(d, state, za, zb) ==
    LET a == GaussianSample(state, za)
        b == GaussianSample(a.state, zb)
    IN  [self |-> d, state |-> b.state, read |-> <<a.value, b.value>>,
         value |-> CauchyWith(d, a.value, b.value)]

\* Lognormal::sample(&self, source): self.gaussian.sample(source).exp()
LognormalSample(d, state, z) ==
    LET g == GaussianSample(state, z)
    IN  [self |-> d, state |-> g.state, read |-> <<g.value>>,
         value |-> LognormalWith(d, g.value)]

\* the seeds of the source: the seed of the default generator, one whose
\* reads come close to 0 and to 1/2, one whose first reads give the
\* quantity 1.0, one whose first reads lie well inside (0, 1), and zero
SourceSeeds ==
    { <<FromNat(42), FromNat(69)>>,
      <<AllOnes64, FromLimbs(32768, 0, 0, 0)>>,
      <<FromLimbs(2016, 32752, 16383, 57344), Zero64>>,
      <<FromLimbs(17, 16720, 222, 57894), FromLimbs(27, 54136, 43452, 8083)>>,
      <<Zero64, Zero64>> }

\* the record of a sample call that has returned: the distribution, the
\* state of the source when it was called, what the call has taken from
\* the source, and the value
Sampled(s) ==
    [op |-> "sample", dist |-> s.self, from |-> source.state,
     read |-> s.read, value |-> s.value]

\* the call returns: the source is left as the routine left it
Returns(s) ==
    /\ source' = [source EXCEPT !.state = s.state, !.calls = @ + 1]
    /\ call' = Sampled(s)

\* d.sample(&mut source) of a sampler that reads the source once
SampleOnce(d, assertions) ==
    /\ draw.pc = "idle"
    /\ source.calls < MaxDirect
    /\ Returns(ReadOnce(d, source.state, assertions))
    /\ UNCHANGED <<genVars, quantityVars, defaultVars, binomialVars,
                   drawVars, dist, iter>>

\* d.sample(&mut source) of a Cauchy
SampleCauchy(d, za, zb) ==
    /\ draw.pc = "idle" /\ d.kind = "cauchy"
    /\ source.calls < MaxDirect
    /\ Returns(CauchySample(d, source.state, za, zb))
    /\ UNCHANGED <<genVars, quantityVars, defaultVars, binomialVars,
                   drawVars, dist, iter>>

\* d.sample(&mut source) of a Lognormal
SampleLognormal(d, z) ==
    /\ draw.pc = "idle" /\ d.kind = "lognormal"
    /\ source.calls < MaxDirect
    /\ Returns(LognormalSample(d, source.state, z))
    /\ UNCHANGED <<genVars, quantityVars, defaultVars, binomialVars,
                   drawVars, dist, iter>>

\* the draws a call of Gamma, Beta or Pert is followed through
MaxDraws == 5

\* the call in progress may draw once more
MayDraw ==
    IF call.op = "none" THEN TRUE
    ELSE Len(call.uniforms) + call.normals < MaxDraws

\* the record of a call of Gamma, Beta or Pert after one more draw: the
\* state of the source when it was called, the uniforms it has read and the
\* number of its Gaussian samples
Drawing(uniforms, normals) ==
    [op |-> "drawing",
     from |-> IF call.op = "none" THEN source.state ELSE call.from,
     uniforms |-> (IF call.op = "none" THEN <<>> ELSE call.uniforms) \o uniforms,
     normals |-> (IF call.op = "none" THEN 0 ELSE call.normals) + normals]

\* the source after a draw that has left it in `state`; the sample call is
\* counted when it returns
Drawn(state) ==
    [source EXCEPT !.state = state,
                   !.calls = IF draw'.pc = "done" THEN @ + 1 ELSE @]

\* g is what gaussian::sample(source) has given and left
NormalTaken(g) ==
    /\ draw' = AfterNormal(draw, Proposed[draw.c, g.value])
    /\ call' = Drawing(<<>>, 1)
    /\ source' = Drawn(g.state)

\* let mut x = gaussian::sample(source) and the lines down to the inner loop
ReadNormal(z) ==
    /\ draw.pc = "normal" /\ MayDraw
    /\ NormalTaken(GaussianSample(source.state, z))
    /\ UNCHANGED <<genVars, quantityVars, defaultVars, binomialVars, dist, iter>>

\* r is what source.read::<f64>() has given and left in the inner loop
UniformTaken(r) ==
    /\ draw' = InnerLoop(draw, GammaUniform(draw.d, draw.x, draw.v, r.value))
    /\ call' = Drawing(<<r.value>>, 0)
    /\ source' = Drawn(r.state)

\* one pass of the inner loop: let u = source.read::<f64>() and the tests
ReadUniform ==
    /\ draw.pc = "uniform" /\ MayDraw
    /\ UniformTaken(SourceReadF64(source.state))
    /\ UNCHANGED <<genVars, quantityVars, defaultVars, binomialVars, dist, iter>>

\* r is what source.read::<f64>() has given and left after the recursive
\* call
PowerTaken(r) ==
    /\ draw' = PowerReturn(draw, GammaPower(draw.inner, r.value, draw.shape))
    /\ call' = Drawing(<<r.value>>, 0)
    /\ source' = Drawn(r.state)

\* sample(1.0 + k, source) * source.read::<f64>().powf(1.0 / k)
ReadPower ==
    /\ draw.pc = "power" /\ MayDraw
    /\ PowerTaken(SourceReadF64(source.state))
    /\ UNCHANGED <<genVars, quantityVars, defaultVars, binomialVars, dist, iter>>

InitOnce ==
    /\ \E seed \in SourceSeeds :
          source = [seed |-> seed, state |-> XorshiftPlusNew(seed), calls |-> 0]
    /\ dist = NoDist /\ iter = NoIter
    /\ DrawIdle /\ CallIdle /\ BinomialIdle
    /\ GenInit /\ QuantityIdle /\ DefaultInit

\* a call of Gamma, Beta or Pert is followed to its end on a source nothing
\* else has drawn from; the other calls follow one another
NextOnce ==
    \/ call.op = "none" /\ \E d \in GammaDists : SampleCall(d)
    \/ draw.pc = "normal" /\ \E z \in NormalDraws : ReadNormal(z)
    \/ draw.pc = "uniform" /\ ReadUniform
    \/ draw.pc = "power" /\ ReadPower
    \/ draw.pc = "idle" /\ \E d \in OnceDists, assertions \in BOOLEAN :
          SampleOnce(d, assertions)
    \/ draw.pc = "idle" /\ \E d \in NormalDists :
          \E za, zb \in NormalDraws : SampleCauchy(d, za, zb)
    \/ draw.pc = "idle" /\ \E d \in NormalDists :
          \E z \in NormalDraws : SampleLognormal(d, z)

SpecOnce == InitOnce /\ [][NextOnce]_vars

-----------------------------------------------------------------------------
(* Claims on the reads of a sample call *)

\* the samplers the claim names as reading once
OnceKinds ==
    {"uniform", "bernoulli", "binomial", "categorical", "exponential",
     "laplace", "logistic", "triangular"}

\* the draws Cauchy and Lognormal take from a Gaussian
NormalsOf(kind) == IF kind = "cauchy" THEN 2 ELSE 1

\* the states of a source over k more reads, the last of `states` first
RECURSIVE StatesFrom(_, _)
StatesFrom(states, k) ==
    IF k = 0 THEN states
    ELSE StatesFrom(Append(states,
                           Settled(XorshiftPlusRead(states[Len(states)]).state)),
                    k - 1)

\* of the states after 0, 1, ... reads the source is in the one after n
\* and, unless the seed is zero, in no other
OnlyAfter(states, n) ==
    /\ source.state = states[n + 1]
    /\ source.seed # <<Zero64, Zero64>> =>
          \A m \in 1..Len(states) : source.state = states[m] => m = n + 1

\* the source has moved on by exactly n reads since the call began, of the
\* numbers of reads up to n + 2
MovedBy(n) == OnlyAfter(StatesFrom(<<call.from>>, n + 2), n)

\* the reads a call of Gamma, Beta or Pert has made: one for each uniform
\* and those of its Gaussian samples
ReadsOf(c) == Len(c.uniforms) + GaussianReads * c.normals

\* `states` are the states of the source from the one the call of Gamma,
\* Beta or Pert began in, one for each of its reads: the source is in the
\* last of them, and the last uniform of the call is the quantity of the
\* read that led to it
ReadThrough(states) ==
    /\ source.state = states[Len(states)]
    /\ call.uniforms[Len(call.uniforms)] =
          QuantityF64(XorshiftPlusRead(states[Len(states) - 1]).value)

-----------------------------------------------------------------------------
(* The evaluations: a distribution is made, then one of its functions is   *)
(* called; a second call of cdf or distribution at a larger argument may   *)
(* follow the first.                                                       *)

\* the entries of the probability vectors
Entries ==
    {F64Zero(0), Dyadic(1, 0 - 2), Dyadic(1, 0 - 1), F64One,
     DiffF64(Dyadic(1, 0 - 1), Dyadic(1, 0 - 41)),
     SumF64(Dyadic(1, 0 - 1), Dyadic(1, 0 - 41))}

\* the longest probability vector
MaxCategories == 3

Vectors == UNION {[1..k -> Entries] : k \in 1..MaxCategories}

\* the probabilities inv_cdf is asked for
Probabilities ==
    {F64Zero(0), F64One, Dyadic(1, 0 - 2), Dyadic(1, 0 - 1), Dyadic(3, 0 - 2),
     DiffF64(F64One, Dyadic(1, 0 - 53)),
     SumF64(Dyadic(1, 0 - 1), Dyadic(1, 0 - 41))}

\* Triangular::new arguments a, b, c in halves
Triangles == {<<2, 10, 6>>, <<0, 4, 1>>, <<0 - 2, 1, 1>>, <<1, 3, 1>>}

\* Gaussian::new arguments
Gaussians ==
    {GaussianNew(F64Zero(0), F64One),
     GaussianNew(WholeF64(0 - 1), Dyadic(1, 0 - 2)),
     GaussianNew(CastToF64(3), CastToF64(2)),
     GaussianNew(F64One, CastToF64(3))}

\* the probabilities Gaussian::inv_cdf is asked for: the ends, the middle,
\* both sides of |q| = 0.425 and both sides of r = 5, numbers next to and
\* away from [0, 1] on either side, and a NaN
GaussianProbabilities ==
    {F64Zero(0), F64One, Dyadic(1, 0 - 1), Dyadic(1, 0 - 2), Dyadic(3, 0 - 2),
     Dyadic(1, 0 - 3), Dyadic(7, 0 - 3),
     F64Lit(<<13107, 26214, 19660, 153>>, 0 - 56),     \* 0.075
     F64Lit(<<6554, 13107, 26214, 236>>, 0 - 53),      \* 0.925
     Dyadic(1, 0 - 4), DiffF64(F64One, Dyadic(1, 0 - 4)),
     Dyadic(1, 0 - 36), Dyadic(1, 0 - 37),
     DiffF64(F64One, Dyadic(1, 0 - 36)), DiffF64(F64One, Dyadic(1, 0 - 37)),
     NegF64(Dyadic(1, 0 - 2)), NegF64(Dyadic(1, 0 - 1074)),   \* below 0
     Dyadic(3, 0 - 1), SumF64(F64One, Dyadic(1, 0 - 52)),     \* above 1
     F64NaN}

\* Categorical::new(p)
CategoricalCreate(p) ==
    /\ call.op = "none"
    /\ IsProbabilityVector(p)
    /\ call' = [op |-> "new", kind |-> "categorical", dist |-> CategoricalNew(p)]
    /\ UNCHANGED <<genVars, quantityVars, samplerVars, defaultVars,
                   binomialVars, drawVars>>

\* Triangular::new(a, b, c)
TriangularCreate(a, b, c) ==
    /\ call.op = "none"
    /\ TriangularValid(a, b, c)
    /\ call' = [op |-> "new", kind |-> "triangular",
                dist |-> TriangularNew(a, b, c)]
    /\ UNCHANGED <<genVars, quantityVars, samplerVars, defaultVars,
                   binomialVars, drawVars>>

\* Gaussian::new(mu, sigma)
GaussianCreate(d) ==
    /\ call.op = "none"
    /\ LeF64(F64Zero(0), d.sigma)     \* should!(sigma >= 0.0)
    /\ call' = [op |-> "new", kind |-> "gaussian", dist |-> d]
    /\ UNCHANGED <<genVars, quantityVars, samplerVars, defaultVars,
                   binomialVars, drawVars>>

\* a first call of the function, or a second one at a larger argument
MayAsk(kind, op, j) ==
    /\ call.op # "none" /\ call.kind = kind
    /\ \/ call.op = "new"
       \/ call.op = op /\ ~call.again /\ j > call.x

\* the record of a call at j halves that has returned value
Asked(op, j, value) ==
    [op |-> op, kind |-> call.kind, dist |-> call.dist, x |-> j,
     value |-> value,
     again |-> call.op # "new",
     below |-> IF call.op = "new" THEN value ELSE call.value]

\* cdf(x) of the Categorical for x = j / 2
AskCdf(j) ==
    /\ MayAsk("categorical", "cdf", j)
    /\ j \in (0 - 2)..(2 * call.dist.k + 2)
    /\ call' = Asked("cdf", j, CategoricalCdf(call.dist, HalvesF64(j)))
    /\ UNCHANGED <<genVars, quantityVars, samplerVars, defaultVars,
                   binomialVars, drawVars>>

\* inv_cdf(p) of the Categorical, in a build with or without debug
\* assertions
AskInvCdf(p, assertions) ==
    /\ call.op = "new" /\ call.kind = "categorical"
    /\ call' = [op |-> "inv_cdf", kind |-> call.kind, dist |-> call.dist,
                p |-> p, assertions |-> assertions,
                value |-> CategoricalInvCdf(call.dist, p, assertions)]
    /\ UNCHANGED <<genVars, quantityVars, samplerVars, defaultVars,
                   binomialVars, drawVars>>

\* distribution(x) of the Triangular for x = j / 2
AskTriangular(j) ==
    /\ MayAsk("triangular", "distribution", j)
    /\ call' = Asked("distribution", j,
                     TriangularDistribution(call.dist, HalvesF64(j)))
    /\ UNCHANGED <<genVars, quantityVars, samplerVars, defaultVars,
                   binomialVars, drawVars>>

\* inv_cdf(p) of the Gaussian, in a build with or without debug assertions
AskGaussian(p, assertions) ==
    /\ call.op = "new" /\ call.kind = "gaussian"
    /\ call' = [op |-> "quantile", kind |-> call.kind, dist |-> call.dist,
                p |-> p, assertions |-> assertions]
                    @@ InvCdf(call.dist, p, assertions)
    /\ UNCHANGED <<genVars, quantityVars, samplerVars, defaultVars,
                   binomialVars, drawVars>>

\* median() of the Categorical
AskMedian ==
    /\ call.op = "new" /\ call.kind = "categorical"
    /\ call' = [op |-> "median", kind |-> call.kind, dist |-> call.dist,
                twice |-> CategoricalMedian(call.dist),
                value |-> HalvesF64(CategoricalMedian(call.dist))]
    /\ UNCHANGED <<genVars, quantityVars, samplerVars, defaultVars,
                   binomialVars, drawVars>>

InitEval ==
    /\ CallIdle /\ DrawIdle /\ BinomialIdle
    /\ GenInit /\ QuantityIdle /\ SamplerIdle /\ DefaultInit

NextEval ==
    \/ \E p \in Vectors : CategoricalCreate(p)
    \/ \E t \in Triangles :
          TriangularCreate(HalvesF64(t[1]), HalvesF64(t[2]), HalvesF64(t[3]))
    \/ \E d \in Gaussians : GaussianCreate(d)
    \/ \E j \in (0 - 2)..(2 * MaxCategories + 4) : AskCdf(j)
    \/ \E p \in Probabilities, assertions \in BOOLEAN : AskInvCdf(p, assertions)
    \/ \E j \in (0 - 6)..12 : AskTriangular(j)
    \/ \E p \in GaussianProbabilities, assertions \in BOOLEAN :
          AskGaussian(p, assertions)
    \/ AskMedian

SpecEval == InitEval /\ [][NextEval]_vars

-----------------------------------------------------------------------------
(* Claims about the evaluations.                                           *)

\* the sum of p[0..=i] of the code, added from the left
SumThrough(p, i) == SumLeft(SubSeq(p, 1, i + 1), 1, F64Zero(0))

\* the indices of the code whose cumulative probability is above zero and
\* at least p
Reaching(d, p) ==
    {i \in 0..(d.k - 1) :
        LtF64(F64Zero(0), d.cumsum[i + 1]) /\ LeF64(p, d.cumsum[i + 1])}

\* C18: for every probability vector Categorical::new accepts and every p in
\* [0, 1], inv_cdf(p) is the smallest index whose cumulative probability is
\* above zero and at least p, and the category it returns has a probability
\* above zero.
C18_PositiveCategory ==
    (call.op = "inv_cdf") =>
        /\ call.value \in 0..(call.dist.k - 1)
        /\ Reaching(call.dist, call.p) # {} =>
              /\ call.value \in Reaching(call.dist, call.p)
              /\ \A i \in Reaching(call.dist, call.p) : call.value <= i
        /\ LtF64(F64Zero(0), call.dist.p[call.value + 1])

\* C19: for every probability vector Categorical::new accepts, cdf is a step
\* function that never decreases: 0 below 0, the sum of p[0..=floor(x)] for
\* 0 <= x < k - 1, and 1 from k - 1 on.
C19_StepFunction ==
    (call.op = "cdf") =>
        /\ call.x < 0 => call.value = F64Zero(0)
        /\ call.x >= 2 * (call.dist.k - 1) => call.value = F64One
        /\ (call.x >= 0 /\ call.x < 2 * (call.dist.k - 1)) =>
              call.value = SumThrough(call.dist.p, call.x \div 2)
        /\ call.again => LeF64(call.below, call.value)

\* C20: distribution(x) of Triangular(a, b, c) is the cumulative probability:
\* it never decreases in x, is 0 for x <= a, (c - a) / (b - a) at x = c and
\* 1 for x >= b.
C20_Cumulative ==
    (call.op = "distribution") =>
        /\ LeF64(HalvesF64(call.x), call.dist.a) => call.value = F64Zero(0)
        /\ LeF64(call.dist.b, HalvesF64(call.x)) => call.value = F64One
        /\ HalvesF64(call.x) = call.dist.c =>
              call.value = QuotF64(DiffF64(call.dist.c, call.dist.a),
                                   DiffF64(call.dist.b, call.dist.a))
        /\ call.again => LeF64(call.below, call.value)

\* f64::min of two numbers
MinF64(a, b) == IF LtF64(b, a) THEN b ELSE a

\* r = sqrt(-ln(min(p, 1 - p)))
TailRadius(p) == SqrtF64(NegF64(LnF64(MinF64(p, DiffF64(F64One, p)))))

\* the formula p selects
FormulaOf(p) ==
    IF LeF64(p, F64Zero(0)) THEN "low"
    ELSE IF LeF64(F64One, p) THEN "high"
    ELSE IF LeF64(AbsF64(DiffF64(p, Dyadic(1, 0 - 1))), SPLIT1) THEN "central"
    ELSE IF LeF64(TailRadius(p), SPLIT2) THEN "near"
    ELSE "far"

\* the ratio of a tail, negated below the median
TailOf(p, ratio) == IF LtF64(p, Dyadic(1, 0 - 1)) THEN NegF64(ratio) ELSE ratio

\* the value the formula stands for before the mean and the deviation come
\* in: q * A(x) / B(x) in the middle, the signed ratio in a tail
FormulaRatio(formula, p, q) ==
    CASE formula = "central" ->
            QuotF64(ProdF64(q, Poly(GaussianA, DiffF64(CONST1, ProdF64(q, q)))),
                    Poly(GaussianB, DiffF64(CONST1, ProdF64(q, q))))
      [] formula = "near" ->
            TailOf(p, PolyRatio(GaussianC, GaussianD,
                                DiffF64(TailRadius(p), CONST2)))
      [] formula = "far" ->
            TailOf(p, PolyRatio(GaussianE, GaussianF,
                                DiffF64(TailRadius(p), SPLIT2)))

\* mu + sigma times the value of the formula; the infinities at the ends
FormulaValue(formula, mu, sigma, p, q) ==
    CASE formula = "low" -> F64Inf(1)
      [] formula = "high" -> F64Inf(0)
      [] OTHER -> SumF64(mu, ProdF64(sigma, FormulaRatio(formula, p, q)))

\* the middle as f64 arithmetic takes it, from the left: sigma * q first,
\* then times A(x), then divided by B(x), then added to mu
CentralFromLeft(mu, sigma, q) ==
    SumF64(mu, QuotF64(
        ProdF64(ProdF64(sigma, q),
                Poly(GaussianA, DiffF64(CONST1, ProdF64(q, q)))),
        Poly(GaussianB, DiffF64(CONST1, ProdF64(q, q)))))

\* p is a number of [0, 1]
IsProbability(p) == LeF64(F64Zero(0), p) /\ LeF64(p, F64One)

\* multiplying by sigma only moves the exponent
IsPowerOfTwo(sigma) == sigma.kind = "fin" /\ sigma.man = F64One.man

\* the call of inv_cdf has panicked
Panicked == "panic" \in DOMAIN call

AtMost(d, j) == IF j < 0 THEN F64Zero(0) ELSE CumsumAt(d, j \div 2)

\* P(X < x) for x = j / 2
Below(d, j) == AtMost(d, 2 * ((j + 1) \div 2) - 2)

\* C29: Categorical::median returns a median m for every probability vector
\* new accepts: P(X <= m) >= 1/2 and P(X >= m) >= 1/2, that is
\* P(X < m) <= 1/2, also where the cumulative sum is exactly 1/2 at an index
\* i >= 1 and (2i - 1) / 2 is returned.
C29_IsMedian ==
    (call.op = "median") =>
        /\ call.twice >= 0
        /\ LeF64(Dyadic(1, 0 - 1), AtMost(call.dist, call.twice))
        /\ LeF64(Below(call.dist, call.twice), Dyadic(1, 0 - 1))
-----------------------------------------------------------------------------
(* Further claims on the generators *)

ZeroState == <<Zero64, Zero64>>

\* the states at hand: those of the generators made and the seeds
StatesAtHand == {gens[g].state : g \in GenIds} \cup Seeds

\* C26: from a seed other than [0, 0] no sequence of reads brings the state
\* to [0, 0]; the state transition of read maps different states to
\* different states.
C26_NeverZero ==
    /\ \A g \in GenIds :
          (gens[g].made /\ gens[g].seed # ZeroState) =>
              gens[g].state # ZeroState
    /\ \A s, t \in StatesAtHand :
          s # t => XorshiftPlusRead(s).state # XorshiftPlusRead(t).state

\* a generator whose seed has a zero second word, so that the first word of
\* its state was zero after one read, has made all its reads
C26_Witness ==
    \E g \in GenIds :
        /\ gens[g].made /\ Len(gens[g].out) = MaxReads
        /\ gens[g].seed[1] # Zero64 /\ gens[g].seed[2] = Zero64
        /\ gens[g].state[1] # Zero64 /\ gens[g].state[2] # Zero64

\* C27: XorshiftPlus::new takes the seed [0, 0] as any other, and from it
\* the state is [0, 0] after every read and every read returns 0.
C27_ZeroStays ==
    \A g \in GenIds :
        (gens[g].made /\ gens[g].seed = ZeroState) =>
            /\ gens[g].state = ZeroState
            /\ \A i \in 1..Len(gens[g].out) : gens[g].out[i] = Zero64

\* both generators were made with the seed [0, 0] and have made all their
\* reads
C27_Witness ==
    \A g \in GenIds :
        /\ gens[g].made /\ gens[g].seed = ZeroState
        /\ Len(gens[g].out) = MaxReads

\* C25: all the handles default() returns within one thread refer to one
\* generator state: a read or a seed through any of them moves or resets
\* the sequence seen through the others, so the values read through one
\* handle and then another are consecutive values of a single stream, and
\* whichever handle reads next gets the next value of that stream.
C25_OneStream ==
    /\ \A h, i \in 1..Len(handles[Watched]) :
          handles[Watched][h] = handles[Watched][i]
    /\ Len(log[Watched]) = Cardinality({i \in 1..Len(via) : via[i][1] = "read"})
    /\ \A i \in 1..Len(log[Watched]) :
          i > seeded[Watched].at =>
              log[Watched][i] =
                  NthRead(seeded[Watched].seed, i - seeded[Watched].at)
    /\ \A h \in 1..Len(handles[Watched]) :
          XorshiftPlusRead(tls[handles[Watched][h]].state).value =
              NthRead(seeded[Watched].seed,
                      Len(log[Watched]) - seeded[Watched].at + 1)

\* the thread has read through its first handle, has reseeded through its
\* second, and has then read through the first and through the second
C25_Witness ==
    /\ Len(handles[Watched]) = 2
    /\ via = <<<<"read", 1>>, <<"seed", 2>>, <<"read", 1>>, <<"read", 2>>>>
    /\ log[Watched][2] = NthRead(seeded[Watched].seed, 1)
    /\ log[Watched][3] = NthRead(seeded[Watched].seed, 2)

-----------------------------------------------------------------------------
(* The constructors and their requirements.  should! is debug_assert!: the *)
(* requirement is tested in a build with debug assertions and not at all   *)
(* in a build without them.                                                *)

\* the requirement handed to should! in each constructor
Requirement(kind, a) ==
    CASE kind = "binomial" -> LtF64(F64Zero(0), a[2]) /\ LtF64(a[2], F64One)
      [] kind = "bernoulli" -> LtF64(F64Zero(0), a[1]) /\ LtF64(a[1], F64One)
      [] kind = "binomial with failure" ->
            LtF64(F64Zero(0), a[2]) /\ LtF64(a[2], F64One)
      [] kind = "bernoulli with failure" ->
            LtF64(F64Zero(0), a[1]) /\ LtF64(a[1], F64One)
      [] kind = "uniform" -> LtF64(a[1], a[2])
      [] kind = "beta" ->
            /\ LtF64(F64Zero(0), a[1]) /\ LtF64(F64Zero(0), a[2])
            /\ LtF64(a[3], a[4])
      [] kind = "gamma" -> LtF64(F64Zero(0), a[1]) /\ LtF64(F64Zero(0), a[2])
      [] kind = "categorical" -> IsProbabilityVector(a)

\* the value the constructor builds from its arguments
Constructed(kind, a) ==
    CASE kind = "binomial" -> BinomialNew(a[1], a[2])
      [] kind = "bernoulli" -> BernoulliOf(a[1])
      [] kind = "binomial with failure" -> BinomialWithFailure(a[1], a[2])
      [] kind = "bernoulli with failure" -> BernoulliWithFailure(a[1])
      [] kind = "uniform" -> [kind |-> "uniform", a |-> a[1], b |-> a[2]]
      [] kind = "beta" -> BetaNew(a[1], a[2], a[3], a[4])
      [] kind = "gamma" -> GammaNew(a[1], a[2])
      [] kind = "categorical" -> CategoricalNew(a)

\* the numbers handed to the constructors
Reals ==
    {F64NaN, WholeF64(0 - 1), F64Zero(0), Dyadic(1, 0 - 2), F64One,
     Dyadic(3, 0 - 1)}

\* vectors with entries outside [0, 1] that add up to 1
Outside == {<<Dyadic(3, 0 - 1), HalvesF64(0 - 1)>>, <<F64NaN, F64One>>}

\* failure probabilities below the spacing of the f64 next to 1.0
Failures == Reals \cup {Dyadic(1, 0 - 67), Dyadic(1, 0 - 60)}

\* the arguments of each constructor
Arguments21(kind) ==
    CASE kind = "binomial" -> {0, 3} \X Reals
      [] kind = "bernoulli" -> {<<p>> : p \in Reals}
      [] kind = "binomial with failure" -> {0, 3} \X Failures
      [] kind = "bernoulli with failure" -> {<<q>> : q \in Failures}
      [] kind = "uniform" -> Reals \X Reals
      [] kind = "beta" ->
            {Dyadic(1, 0 - 2), F64Zero(0)} \X {F64One, WholeF64(0 - 1)}
                \X {F64Zero(0), F64One} \X {F64Zero(0), F64One}
      [] kind = "gamma" -> Reals \X Reals
      [] kind = "categorical" -> Vectors \cup Outside \cup {<<>>}

Kinds21 ==
    {"binomial", "bernoulli", "binomial with failure",
     "bernoulli with failure", "uniform", "beta", "gamma", "categorical"}

\* the body of the constructor panics: Categorical::new on an empty vector
Panics(kind, a) == Constructed(kind, a) = Panic

\* a constructor is called in a build with or without debug assertions:
\* it panics when should! fails or its body does, and returns the value
\* otherwise
Construct(kind, a, assertions) ==
    /\ call.op = "none"
    /\ call' = IF Should(assertions, Requirement(kind, a)) /\ ~Panics(kind, a)
               THEN [op |-> "construct", kind |-> kind, args |-> a,
                     assertions |-> assertions, outcome |-> "value",
                     dist |-> Constructed(kind, a)]
               ELSE [op |-> "construct", kind |-> kind, args |-> a,
                     assertions |-> assertions, outcome |-> "panic"]
    /\ UNCHANGED <<genVars, quantityVars, samplerVars, defaultVars,
                   binomialVars, drawVars>>

\* Discrete::mass(x) of a Binomial whose p is 0 or 1, where the code returns
\* before the expansion
MassAtEnd(x) ==
    /\ call.op = "construct"
    /\ call.kind \in {"binomial", "binomial with failure"}
    /\ call.outcome = "value"
    /\ EqF64(call.dist.p, F64Zero(0)) \/ EqF64(call.dist.p, F64One)
    /\ call' = [op |-> "mass", kind |-> call.kind, dist |-> call.dist,
                x |-> x, value |-> Mass(call.dist, x)]
    /\ UNCHANGED <<genVars, quantityVars, samplerVars, defaultVars,
                   binomialVars, drawVars>>

NextNew ==
    \/ \E kind \in Kinds21 : \E a \in Arguments21(kind) :
          \E assertions \in BOOLEAN : Construct(kind, a, assertions)
    \/ \E x \in 0..3 : MassAtEnd(x)

SpecNew == InitEval /\ [][NextNew]_vars

-----------------------------------------------------------------------------
(* Claims about the constructors.                                          *)

\* the statement of C21 without the build: a constructor whose parameters
\* are outside the domain panics
C21_AlwaysPanics ==
    (call.op = "construct" /\ ~Requirement(call.kind, call.args)) =>
        call.outcome = "panic"

\* C21: in a build with debug assertions a constructor whose parameters are
\* outside the domain (Binomial or Bernoulli p or q not in (0, 1), Uniform
\* or Beta a >= b, Gamma k <= 0 or theta <= 0, a Categorical entry outside
\* [0, 1] or a sum farther than 1e-12 from 1) panics and returns no value;
\* in a build without them it returns the value made from the parameters
\* as they are, except that Categorical::new of an empty vector panics in
\* its body; with parameters inside the domain it returns in both.
C21_PanicsWithAssertions ==
    (call.op = "construct") =>
        /\ (call.assertions /\ ~Requirement(call.kind, call.args)) =>
              call.outcome = "panic"
        /\ (~call.assertions \/ Requirement(call.kind, call.args)) =>
              IF call.kind = "categorical" /\ call.args = <<>>
              THEN call.outcome = "panic"
              ELSE /\ call.outcome = "value"
                   /\ call.dist = Constructed(call.kind, call.args)

\* Gamma::new(-1.0, 1.0) has panicked in a build with debug assertions
C21_Witness ==
    /\ call.op = "construct" /\ call.kind = "gamma"
    /\ call.args = <<WholeF64(0 - 1), F64One>>
    /\ call.assertions /\ call.outcome = "panic"

\* C22: Binomial::new(n, p) returns a value for every p with 0 <= p <= 1,
\* and for p = 0 and p = 1 mass is 1 at x = 0 and at x = n and 0 elsewhere.
C22_AcceptsEnds ==
    /\ (/\ call.op = "construct" /\ call.kind = "binomial"
        /\ LeF64(F64Zero(0), call.args[2]) /\ LeF64(call.args[2], F64One)) =>
           call.outcome = "value"
    /\ (call.op = "mass") =>
           call.value =
               IF call.x = (IF EqF64(call.dist.p, F64Zero(0)) THEN 0
                            ELSE call.dist.n)
               THEN F64One ELSE F64Zero(0)

-----------------------------------------------------------------------------
(* Binomial::distribution below one success for every trial count a usize  *)
(* of 64 bits holds; the counts are natural numbers in limbs.              *)

\* 2^k as a natural number
NatPow2(k) == NatShl(NatOf(1), k)

\* the trial counts: small ones, and those around 2^31, 2^32 and 2^64
WideCounts ==
    {NatOf(0), NatOf(1), NatOf(3), NatOf(1000), NatSub(NatPow2(31), NatOf(1)),
     NatPow2(31), NatAdd(NatPow2(31), NatOf(1)), NatAdd(NatPow2(31), NatOf(2)),
     NatSub(NatPow2(32), NatOf(1)), NatPow2(32), NatAdd(NatPow2(32), NatOf(3)),
     NatPow2(63), NatSub(NatPow2(64), NatOf(1))}

\* the failure probabilities q = 1 - p
WideFailures ==
    {Dyadic(1, 0 - 1), Dyadic(1, 0 - 2), Dyadic(3, 0 - 2),
     DiffF64(F64One, Dyadic(1, 0 - 10)), DiffF64(F64One, Dyadic(1, 0 - 31)),
     DiffF64(F64One, Dyadic(1, 0 - 40)), DiffF64(F64One, Dyadic(1, 0 - 53))}

\* q^n for a natural number n in limbs, by squaring from the lowest bit up
RECURSIVE PowerFrom(_, _, _, _)
PowerFrom(a, n, i, r) ==
    IF i >= BitLen(n) THEN r
    ELSE PowerFrom(ProdF64(a, a), n, i + 1,
                   IF TestBit(n, i) = 1 THEN ProdF64(r, a) ELSE r)

Power(q, n) == PowerFrom(q, n, 0, F64One)

\* Distribution::distribution(&self, x) of a Binomial with n trials for
\* x < 1, where x as usize is 0
DistributionBelowOne(q, n, x) ==
    IF LtF64(x, F64Zero(0)) THEN F64Zero(0) ELSE Powi(q, AsI32(n))

\* j / 4 for a signed j
Quarters(j) == QuotF64(WholeF64(j), CastToF64(4))

\* distribution(x) is called at x = j / 4 on the Binomial with n trials
AskBelowOne(n, q, j) ==
    /\ call.op = "none"
    /\ call' = [op |-> "below one", n |-> n, q |-> q, x |-> j,
                value |-> DistributionBelowOne(q, n, Quarters(j))]
    /\ UNCHANGED <<genVars, quantityVars, samplerVars, defaultVars,
                   binomialVars, drawVars>>

NextWide ==
    \E n \in WideCounts : \E q \in WideFailures : \E j \in (0 - 1)..3 :
        AskBelowOne(n, q, j)

SpecWide == InitEval /\ [][NextWide]_vars

\* C28: distribution at 0 <= x < 1 returns q^n for every n a usize holds:
\* the exponent handed to powi is n itself, and the result is in [0, 1],
\* also for n >= 2^31.
C28_PowerOfQ ==
    (call.op = "below one" /\ call.x >= 0) =>
        /\ AsI32(call.n) >= 0 /\ NatOf(AsI32(call.n)) = call.n
        /\ call.value = Power(call.q, call.n)
        /\ LeF64(F64Zero(0), call.value) /\ LeF64(call.value, F64One)

-----------------------------------------------------------------------------
(* inverse_normal on its own: the terms of the expansion for a Binomial    *)
(* with n trials and a probability u in the middle of the Gaussian.        *)

\* the trial counts and success probabilities of the expansion
NormalTrials == {1000, 2048, 4096}

NormalSuccesses ==
    {Dyadic(1, 0 - 2), Dyadic(1, 0 - 1), Dyadic(3, 0 - 2), Dyadic(3, 0 - 3)}

\* the probabilities asked for, u = j / 16
NormalSixteenths == 2..14

\* the terms of inverse_normal(p, np, v, u) as the code adds them
TermsOf(p, np, v, u) ==
    InverseNormalTerms(np, Powers(GaussianInverse(u), 6),
                       PowersOfP(p, ProdF64(p, p)), SqrtF64(v), RecipF64(v),
                       DiffF64(ProdF64(CastToF64(2), p), CastToF64(1)))

\* inverse_normal(self.p, self.np, self.npq, u).floor() as usize of
\* Binomial::new(n, p)
AskNormal(n, p, j) ==
    /\ call.op = "none"
    /\ LET d == BinomialNew(n, p)
           u == Dyadic(j, 0 - 4)
       IN  call' = [op |-> "inverse_normal", p |-> d.p, np |-> d.np,
                    v |-> d.npq, u |-> u,
                    terms |-> TermsOf(d.p, d.np, d.npq, u),
                    value |-> AsCount(FloorF64(InverseNormal(d.p, d.np, d.npq, u)))]
    /\ UNCHANGED <<genVars, quantityVars, samplerVars, defaultVars,
                   binomialVars, drawVars>>

NextNormal ==
    \E n \in NormalTrials : \E p \in NormalSuccesses :
        \E j \in NormalSixteenths : AskNormal(n, p, j)

SpecNormal == InitEval /\ [][NextNormal]_vars

\* (2p - 1)(p + 1)(p - 2)(3 w^4 + 7 w^2 - 16) / 1620 over the variance v,
\* the product taken from the left as in the code
OverVariance(p, v, w) ==
    ProdF64(
        ProdF64(ProdF64(ProdF64(RecipF64(v),
                                DiffF64(ProdF64(CastToF64(2), p), F64One)),
                        SumF64(p, F64One)),
                DiffF64(p, CastToF64(2))),
        QuotF64(DiffF64(SumF64(ProdF64(CastToF64(3), Powers(w, 4)[4]),
                               ProdF64(CastToF64(7), Powers(w, 2)[2])),
                        CastToF64(16)),
                CastToF64(1620)))

\* C30: in inverse_normal the 1/variance term is
\* (2p - 1)(p + 1)(p - 2)(3 w^4 + 7 w^2 - 16) / 1620 over the variance, the
\* whole polynomial in w divided by the constant as in every other term.
C30_WholeOverConstant ==
    (call.op = "inverse_normal") =>
        EqF64(call.terms[7],
             OverVariance(call.p, call.v, GaussianInverse(call.u)))

-----------------------------------------------------------------------------
(* The older Binomial (src/distributions/binomial.rs): cdf and pdf at the  *)
(* counts its Newton iteration visits.  cdf goes through inc_beta of the   *)
(* special crate and is taken as the exact probability rounded to the      *)
(* nearest f64; pdf is what the saddle-point expansion of Binomial::pdf    *)
(* returns, SFE[11] of stirlerr being 7.757367548795184079e-03.            *)

OlderKnown == {
    [n |-> 1000, p |-> Dyadic(1, 0 - 5), m |-> 19,
     cdf |-> F64Lit(<<4298, 29681, 532, 195>>, 0 - 59),
     pdf |-> F64Lit(<<17059, 24729, 13138, 170>>, 0 - 60)],
    [n |-> 1000, p |-> Dyadic(1, 0 - 5), m |-> 20,
     cdf |-> F64Lit(<<26505, 17989, 29907, 164>>, 0 - 58),
     pdf |-> F64Lit(<<15936, 6298, 26514, 134>>, 0 - 59)],
    [n |-> 1000, p |-> Dyadic(1, 0 - 5), m |-> 21,
     cdf |-> F64Lit(<<3926, 32682, 6257, 133>>, 0 - 57),
     pdf |-> F64Lit(<<28232, 29212, 30752, 202>>, 0 - 59)],
    [n |-> 1000, p |-> Dyadic(1, 0 - 5), m |-> 22,
     cdf |-> F64Lit(<<16700, 1941, 646, 206>>, 0 - 57),
     pdf |-> F64Lit(<<25556, 4054, 21544, 145>>, 0 - 58)],
    [n |-> 1000, p |-> Dyadic(1, 0 - 5), m |-> 23,
     cdf |-> F64Lit(<<20718, 6267, 31402, 152>>, 0 - 56),
     pdf |-> F64Lit(<<16712, 21187, 26012, 199>>, 0 - 58)],
    [n |-> 1000, p |-> Dyadic(1, 0 - 5), m |-> 24,
     cdf |-> F64Lit(<<14079, 17407, 17997, 218>>, 0 - 56),
     pdf |-> F64Lit(<<19483, 22279, 5958, 131>>, 0 - 57)],
    [n |-> 1000, p |-> Dyadic(1, 0 - 5), m |-> 25,
     cdf |-> F64Lit(<<9392, 31214, 18865, 150>>, 0 - 55),
     pdf |-> F64Lit(<<9397, 24506, 6700, 165>>, 0 - 57)],
    [n |-> 1000, p |-> Dyadic(1, 0 - 5), m |-> 26,
     cdf |-> F64Lit(<<31000, 5328, 17589, 200>>, 0 - 55),
     pdf |-> F64Lit(<<20895, 27530, 27660, 199>>, 0 - 57)],
    [n |-> 1000, p |-> Dyadic(1, 0 - 5), m |-> 27,
     cdf |-> F64Lit(<<10142, 6336, 11066, 129>>, 0 - 54),
     pdf |-> F64Lit(<<22671, 29374, 18172, 232>>, 0 - 57)],
    [n |-> 1000, p |-> Dyadic(1, 0 - 5), m |-> 28,
     cdf |-> F64Lit(<<15763, 28025, 30260, 161>>, 0 - 54),
     pdf |-> F64Lit(<<22484, 21220, 11242, 130>>, 0 - 56)],
    [n |-> 1000, p |-> Dyadic(1, 0 - 5), m |-> 29,
     cdf |-> F64Lit(<<31135, 30152, 5087, 197>>, 0 - 54),
     pdf |-> F64Lit(<<28720, 8509, 30380, 140>>, 0 - 56)],
    [n |-> 1000, p |-> Dyadic(1, 0 - 5), m |-> 30,
     cdf |-> F64Lit(<<30166, 6476, 30811, 233>>, 0 - 54),
     pdf |-> F64Lit(<<28894, 3599, 4589, 147>>, 0 - 56)],
    [n |-> 1000, p |-> Dyadic(1, 0 - 5), m |-> 31,
     cdf |-> F64Lit(<<30995, 17561, 17527, 135>>, 0 - 53),
     pdf |-> F64Lit(<<28995, 16283, 16975, 148>>, 0 - 56)],
    [n |-> 1000, p |-> Dyadic(1, 0 - 5), m |-> 32,
     cdf |-> F64Lit(<<19419, 1609, 21929, 153>>, 0 - 53),
     pdf |-> F64Lit(<<5695, 3453, 2444, 145>>, 0 - 56)],
    [n |-> 1000, p |-> Dyadic(1, 0 - 5), m |-> 33,
     cdf |-> F64Lit(<<19388, 31262, 27150, 170>>, 0 - 53),
     pdf |-> F64Lit(<<32519, 7847, 9007, 137>>, 0 - 56)],
    [n |-> 1000, p |-> Dyadic(1, 0 - 5), m |-> 34,
     cdf |-> F64Lit(<<7888, 30332, 18728, 186>>, 0 - 53),
     pdf |-> F64Lit(<<12601, 17882, 29087, 251>>, 0 - 57)],
    [n |-> 1000, p |-> Dyadic(1, 0 - 5), m |-> 35,
     cdf |-> F64Lit(<<9065, 1598, 19264, 200>>, 0 - 53),
     pdf |-> F64Lit(<<18830, 31776, 8561, 224>>, 0 - 57)],
    [n |-> 1000, p |-> Dyadic(1, 0 - 5), m |-> 36,
     cdf |-> F64Lit(<<11316, 15862, 23191, 212>>, 0 - 53),
     pdf |-> F64Lit(<<3244, 31617, 30070, 193>>, 0 - 57)],
    [n |-> 1000, p |-> Dyadic(1, 0 - 5), m |-> 37,
     cdf |-> F64Lit(<<25235, 567, 29292, 222>>, 0 - 53),
     pdf |-> F64Lit(<<26097, 17430, 32072, 162>>, 0 - 57)],
    [n |-> 1000, p |-> Dyadic(1, 0 - 5), m |-> 38,
     cdf |-> F64Lit(<<23233, 11569, 7241, 231>>, 0 - 53),
     pdf |-> F64Lit(<<749, 12191, 7637, 133>>, 0 - 57)],
    [n |-> 1000, p |-> Dyadic(1, 0 - 5), m |-> 39,
     cdf |-> F64Lit(<<15651, 27018, 27748, 237>>, 0 - 53),
     pdf |-> F64Lit(<<19508, 2840, 879, 212>>, 0 - 58)],
    [n |-> 1000, p |-> Dyadic(1, 0 - 5), m |-> 40,
     cdf |-> F64Lit(<<8956, 10319, 32173, 242>>, 0 - 53),
     pdf |-> F64Lit(<<15122, 22681, 10511, 164>>, 0 - 58)],
    [n |-> 1000, p |-> Dyadic(1, 0 - 5), m |-> 41,
     cdf |-> F64Lit(<<26896, 9771, 28193, 246>>, 0 - 53),
     pdf |-> F64Lit(<<1259, 30499, 7422, 248>>, 0 - 59)],
    [n |-> 1000, p |-> Dyadic(1, 0 - 5), m |-> 42,
     cdf |-> F64Lit(<<11922, 1969, 23500, 249>>, 0 - 53),
     pdf |-> F64Lit(<<24716, 24930, 27312, 182>>, 0 - 59)],
    [n |-> 1000, p |-> Dyadic(1, 0 - 5), m |-> 43,
     cdf |-> F64Lit(<<7183, 6932, 25240, 251>>, 0 - 53),
     pdf |-> F64Lit(<<24403, 22710, 13065, 131>>, 0 - 59)],
    [n |-> 2000, p |-> Dyadic(1, 0 - 7), m |-> 7,
     cdf |-> F64Lit(<<16248, 9756, 24389, 200>>, 0 - 59),
     pdf |-> F64Lit(<<7698, 16127, 32120, 237>>, 0 - 60)],
    [n |-> 2000, p |-> Dyadic(1, 0 - 7), m |-> 8,
     cdf |-> F64Lit(<<21378, 13625, 2572, 217>>, 0 - 58),
     pdf |-> F64Lit(<<26498, 17494, 13523, 233>>, 0 - 59)],
    [n |-> 2000, p |-> Dyadic(1, 0 - 7), m |-> 9,
     cdf |-> F64Lit(<<4135, 12629, 7737, 210>>, 0 - 57),
     pdf |-> F64Lit(<<19659, 11632, 12902, 203>>, 0 - 58)],
    [n |-> 2000, p |-> Dyadic(1, 0 - 7), m |-> 10,
     cdf |-> F64Lit(<<23060, 15556, 27328, 184>>, 0 - 56),
     pdf |-> F64Lit(<<9211, 18484, 14151, 159>>, 0 - 57)],
    [n |-> 2000, p |-> Dyadic(1, 0 - 7), m |-> 11,
     cdf |-> F64Lit(<<24594, 10619, 6354, 149>>, 0 - 55),
     pdf |-> F64Lit(<<419, 15106, 2161, 227>>, 0 - 57)],
    [n |-> 2000, p |-> Dyadic(1, 0 - 7), m |-> 12,
     cdf |-> F64Lit(<<27904, 10070, 9650, 223>>, 0 - 55),
     pdf |-> F64Lit(<<6616, 31670, 6591, 148>>, 0 - 56)],
    [n |-> 2000, p |-> Dyadic(1, 0 - 7), m |-> 13,
     cdf |-> F64Lit(<<13186, 10758, 8526, 156>>, 0 - 54),
     pdf |-> F64Lit(<<29705, 22891, 14804, 178>>, 0 - 56)],
    [n |-> 2000, p |-> Dyadic(1, 0 - 7), m |-> 14,
     cdf |-> F64Lit(<<8442, 31400, 3843, 206>>, 0 - 54),
     pdf |-> F64Lit(<<13791, 17031, 14038, 199>>, 0 - 56)],
    [n |-> 2000, p |-> Dyadic(1, 0 - 7), m |-> 15,
     cdf |-> F64Lit(<<7579, 12243, 1545, 129>>, 0 - 53),
     pdf |-> F64Lit(<<26865, 5112, 29755, 207>>, 0 - 56)],
    [n |-> 2000, p |-> Dyadic(1, 0 - 7), m |-> 16,
     cdf |-> F64Lit(<<24260, 17243, 14239, 154>>, 0 - 53),
     pdf |-> F64Lit(<<2377, 7236, 3249, 203>>, 0 - 56)],
    [n |-> 2000, p |-> Dyadic(1, 0 - 7), m |-> 17,
     cdf |-> F64Lit(<<24124, 20624, 25039, 177>>, 0 - 53),
     pdf |-> F64Lit(<<31674, 27047, 20864, 186>>, 0 - 56)],
    [n |-> 2000, p |-> Dyadic(1, 0 - 7), m |-> 18,
     cdf |-> F64Lit(<<13383, 4120, 49, 198>>, 0 - 53),
     pdf |-> F64Lit(<<12382, 31805, 29451, 161>>, 0 - 56)],
    [n |-> 2000, p |-> Dyadic(1, 0 - 7), m |-> 19,
     cdf |-> F64Lit(<<4100, 25138, 20451, 214>>, 0 - 53),
     pdf |-> F64Lit(<<24035, 4301, 32149, 132>>, 0 - 56)],
    [n |-> 2000, p |-> Dyadic(1, 0 - 7), m |-> 20,
     cdf |-> F64Lit(<<29859, 18953, 19283, 227>>, 0 - 53),
     pdf |-> F64Lit(<<18939, 32124, 14076, 207>>, 0 - 57)],
    [n |-> 2000, p |-> Dyadic(1, 0 - 7), m |-> 21,
     cdf |-> F64Lit(<<20307, 29327, 6989, 237>>, 0 - 53),
     pdf |-> F64Lit(<<11002, 2139, 32677, 153>>, 0 - 57)],
    [n |-> 2000, p |-> Dyadic(1, 0 - 7), m |-> 22,
     cdf |-> F64Lit(<<24167, 4235, 1003, 244>>, 0 - 53),
     pdf |-> F64Lit(<<25201, 16259, 5031, 218>>, 0 - 58)],
    [n |-> 2000, p |-> Dyadic(1, 0 - 7), m |-> 23,
     cdf |-> F64Lit(<<10525, 18980, 21202, 248>>, 0 - 53),
     pdf |-> F64Lit(<<22229, 13074, 23790, 147>>, 0 - 58)],
    [n |-> 2000, p |-> Dyadic(1, 0 - 7), m |-> 24,
     cdf |-> F64Lit(<<21125, 18900, 21016, 251>>, 0 - 53),
     pdf |-> F64Lit(<<23025, 27668, 20863, 191>>, 0 - 59)] }

\* the older Binomial::new(n, p) at hand: n >= 1000 and npq <= 80
OlderDists ==
    {[n |-> 1000, p |-> Dyadic(1, 0 - 5)], [n |-> 2000, p |-> Dyadic(1, 0 - 7)]}

\* the probabilities asked for, u = j / 64
OlderSixtyFourths == 1..63

OlderAt(d, m) == CHOOSE r \in OlderKnown : r.n = d.n /\ r.p = d.p /\ r.m = m

\* self.cdf(m)
OlderCdf(d, m) == OlderAt(d, m).cdf

\* self.pdf(m)
OlderPdf(d, m) == OlderAt(d, m).pdf

\* modes()[0]: r = self.p * (self.n + 1) as f64; floor(r) where r has a
\* fraction, r - 1 where it has none
OlderModesFirst(d) ==
    LET r == ProdF64(d.p, CastToF64(d.n + 1))
    IN  IF IsZeroF64(r) THEN 0
        ELSE IF EqF64(d.p, F64One) THEN d.n
        ELSE IF FloorF64(r) # r THEN AsCount(FloorF64(r))
        ELSE AsCount(r) - 1

\* next.round() as i32: to the nearest whole number, halves away from zero
RoundAsI32(x) ==
    LET k == AsCount(FloorF64(SumF64(AbsF64(x), Dyadic(1, 0 - 1))))
    IN  IF x.sign = 1 THEN 0 - k ELSE k

\* let next = (u - self.cdf(m)) / self.pdf(m)
OlderNext(d, u, m) == QuotF64(DiffF64(u, OlderCdf(d, m)), OlderPdf(d, m))

\* if -0.5 < next && next < 0.5 { break; }
OlderBreaks(next) ==
    LtF64(NegF64(Dyadic(1, 0 - 1)), next) /\ LtF64(next, Dyadic(1, 0 - 1))

\* inv_cdf(u) enters the last branch: n >= 1000, npq <= 80, u not 0 or 1;
\* m = modes[0]
OlderBegin(d, j) ==
    /\ call.op = "none"
    /\ d.n >= 1000
    /\ ~LtF64(CastToF64(80), BinomialNew(d.n, d.p).npq)
    /\ call' = [op |-> "newton", dist |-> d, u |-> Dyadic(j, 0 - 6),
                m |-> OlderModesFirst(d), pc |-> "loop", left |-> {}]
    /\ UNCHANGED <<genVars, quantityVars, samplerVars, defaultVars,
                   binomialVars, drawVars>>

\* one pass of the loop: break, or m += next.round() as i32; left is the
\* set of counts the loop has moved away from
OlderPass ==
    /\ call.op = "newton" /\ call.pc = "loop"
    /\ call' = IF OlderBreaks(OlderNext(call.dist, call.u, call.m))
               THEN [call EXCEPT !.pc = "done"]
               ELSE [call EXCEPT !.m = call.m
                        + RoundAsI32(OlderNext(call.dist, call.u, call.m)),
                                 !.left = call.left \cup {call.m}]
    /\ UNCHANGED <<genVars, quantityVars, samplerVars, defaultVars,
                   binomialVars, drawVars>>

NextOlder ==
    \/ \E d \in OlderDists : \E j \in OlderSixtyFourths : OlderBegin(d, j)
    \/ OlderPass

SpecOlder == InitEval /\ [][NextOlder]_vars

\* C24: the Newton iteration of the older inv_cdf cannot cycle: for n >= 1000
\* with npq <= 80 and u in (0, 1) the loop started at the mode never comes
\* back to a count it has moved away from, the next count being a function
\* of the present one alone, and so reaches a step strictly between -0.5
\* and 0.5.
C24_NoReturn ==
    (call.op = "newton" /\ call.pc = "loop") => call.m \notin call.left

-----------------------------------------------------------------------------
(* Evaluations and samples of one distribution side by side: the functions  *)
(* of the distribution take &self, sample takes &self and &mut source.     *)

\* Continuous::density of Uniform
UniformDensity(d, x) ==
    IF LtF64(x, d.a) \/ LtF64(d.b, x) THEN F64Zero(0)
    ELSE QuotF64(F64One, DiffF64(d.b, d.a))

\* Distribution::distribution of Uniform
UniformDistribution(d, x) ==
    IF LeF64(x, d.a) THEN F64Zero(0)
    ELSE IF LeF64(d.b, x) THEN F64One
    ELSE QuotF64(DiffF64(x, d.a), DiffF64(d.b, d.a))

\* Inverse::inverse of Uniform: self.a + (self.b - self.a) * p
UniformInverse(d, p, assertions) ==
    IF ~ShouldContain(assertions, p) THEN Panic
    ELSE SumF64(d.a, ProdF64(DiffF64(d.b, d.a), p))

\* Mean::mean of Uniform: (self.a + self.b) / 2.0; Median::median calls it
UniformMean(d) == QuotF64(SumF64(d.a, d.b), F64Lit(<<0, 0, 0, 128>>, 0 - 51))

\* Variance::variance of Uniform: (self.b - self.a).powi(2) / 12.0
UniformVariance(d) ==
    QuotF64(Powi(DiffF64(d.b, d.a), 2), F64Lit(<<0, 0, 0, 192>>, 0 - 49))

\* Distribution::cdf of Bernoulli
BernoulliCdf(d, x) ==
    IF LtF64(x, F64Zero(0)) THEN F64Zero(0)
    ELSE IF LtF64(x, F64One) THEN d.q
    ELSE F64One

\* Discrete::pmf of Bernoulli, x a u8
BernoulliPmf(d, x) ==
    IF x = 0 THEN d.q ELSE IF x = 1 THEN d.p ELSE F64Zero(0)

\* Inverse::inv_cdf of Bernoulli
BernoulliInvCdf(d, p, assertions) ==
    IF ~ShouldContain(assertions, p) THEN Panic
    ELSE IF LeF64(p, d.q) THEN 0 ELSE 1

\* self.p.partial_cmp(&self.q) answered by Less, Equal and Greater; None is
\* unreachable!()
Compared(a, b, less, equal, greater) ==
    IF LtF64(a, b) THEN less
    ELSE IF EqF64(a, b) THEN equal
    ELSE IF LtF64(b, a) THEN greater
    ELSE Panic

\* Median::median of Bernoulli
BernoulliMedian(d) ==
    Compared(d.p, d.q, F64Zero(0), F64Lit(<<0, 0, 0, 128>>, 0 - 53), F64One)

\* Modes::modes of Bernoulli
BernoulliModes(d) == Compared(d.p, d.q, <<0>>, <<0, 1>>, <<1>>)

\* Inverse::inverse of Binomial
BinomialInverse(d, p, assertions) == Outcome(Inverse(d, p, assertions))

\* the functions of each distribution that are evaluated
Functions(d) ==
    IF d.kind = "uniform"
    THEN {"density", "distribution", "inverse", "mean", "median", "variance"}
    ELSE IF d.kind = "bernoulli"
    THEN {"cdf", "pmf", "inv_cdf", "mean", "median", "modes", "variance"}
    ELSE {"distribution", "inverse", "mean", "modes", "variance"}

\* d.fn(x), or d.fn() of a function without an argument
Evaluate(d, fn, x, assertions) ==
    CASE d.kind = "uniform" /\ fn = "density" -> UniformDensity(d, x)
      [] d.kind = "uniform" /\ fn = "distribution" -> UniformDistribution(d, x)
      [] d.kind = "uniform" /\ fn = "inverse" -> UniformInverse(d, x, assertions)
      [] d.kind = "uniform" /\ fn \in {"mean", "median"} -> UniformMean(d)
      [] d.kind = "uniform" /\ fn = "variance" -> UniformVariance(d)
      [] d.kind = "bernoulli" /\ fn = "cdf" -> BernoulliCdf(d, x)
      [] d.kind = "bernoulli" /\ fn = "pmf" -> BernoulliPmf(d, x)
      [] d.kind = "bernoulli" /\ fn = "inv_cdf" ->
            BernoulliInvCdf(d, x, assertions)
      [] d.kind = "bernoulli" /\ fn = "mean" -> d.p
      [] d.kind = "bernoulli" /\ fn = "median" -> BernoulliMedian(d)
      [] d.kind = "bernoulli" /\ fn = "modes" -> BernoulliModes(d)
      [] d.kind = "bernoulli" /\ fn = "variance" -> d.pq
      [] d.kind = "binomial" /\ fn = "distribution" ->
            Distribution(d.binomial, x)
      [] d.kind = "binomial" /\ fn = "inverse" ->
            BinomialInverse(d.binomial, x, assertions)
      [] d.kind = "binomial" /\ fn = "mean" -> d.binomial.np
      [] d.kind = "binomial" /\ fn = "modes" -> BinomialModes(d.binomial)
      [] d.kind = "binomial" /\ fn = "variance" -> d.binomial.npq

\* the f64 arguments: -0.5, 0.0, 0.3125, 0.625, 1.0, 1.5, 2.5 and NaN
FramePoints ==
    { NegF64(F64Lit(<<0, 0, 0, 128>>, 0 - 53)), F64Zero(0),
      F64Lit(<<0, 0, 0, 160>>, 0 - 54), F64Lit(<<0, 0, 0, 160>>, 0 - 53),
      F64One, F64Lit(<<0, 0, 0, 192>>, 0 - 52),
      F64Lit(<<0, 0, 0, 160>>, 0 - 51), F64NaN }

\* the arguments a function is evaluated at: outcomes for pmf, none for a
\* summary
ArgumentsOf(fn) ==
    IF fn = "pmf" THEN 0..2
    ELSE IF fn \in {"mean", "median", "modes", "variance"} THEN {0}
    ELSE FramePoints

FrameFunctions ==
    {"density", "distribution", "inverse", "cdf", "pmf", "inv_cdf", "mean",
     "median", "modes", "variance"}

\* the distributions evaluated and sampled: Uniform, Bernoulli and Binomial
FrameDists ==
    {d \in OnceDists : d.kind \in {"uniform", "bernoulli", "binomial"}}

\* nothing has been evaluated and nothing drawn
NoEvaluation ==
    [op |-> "none", x |-> 0, assertions |-> FALSE, value |-> 0, first |-> 0,
     began |-> 0, calls |-> 0, drawn |-> <<>>]

\* the record of an evaluation: the answer, the number of samples drawn
\* before it, and the answer and the samples of the first evaluation
Evaluated(fn, x, assertions, value) ==
    [call EXCEPT !.op = fn, !.x = x, !.assertions = assertions,
                 !.value = value, !.calls = source.calls,
                 !.first = IF call.op = "none" THEN value ELSE @,
                 !.began = IF call.op = "none" THEN source.calls ELSE @]

\* dist.fn(x): a first evaluation, or the same one again
EvaluateShared(fn, x, assertions) ==
    /\ fn \in Functions(dist) /\ x \in ArgumentsOf(fn)
    /\ \/ call.op = "none"
       \/ call.op = fn /\ call.x = x /\ call.assertions = assertions
    /\ call' = Evaluated(fn, x, assertions, Evaluate(dist, fn, x, assertions))
    /\ UNCHANGED <<genVars, quantityVars, defaultVars, binomialVars,
                   drawVars, dist, source, iter>>

\* the sample call returns: the distribution and the source are what the
\* routine has left of them
Leaves(s) ==
    /\ dist' = s.self
    /\ source' = [source EXCEPT !.state = s.state, !.calls = @ + 1]
    /\ call' = [call EXCEPT !.drawn = Append(@, s.value)]

\* dist.sample(&mut source)
SampleShared(assertions) ==
    /\ source.calls < MaxDirect
    /\ Leaves(ReadOnce(dist, source.state, assertions))
    /\ UNCHANGED <<genVars, quantityVars, defaultVars, binomialVars,
                   drawVars, iter>>

InitFrame ==
    /\ dist \in FrameDists
    /\ \E seed \in SourceSeeds :
          source = [seed |-> seed, state |-> XorshiftPlusNew(seed), calls |-> 0]
    /\ call = NoEvaluation
    /\ iter = NoIter
    /\ DrawIdle /\ BinomialIdle
    /\ GenInit /\ QuantityIdle /\ DefaultInit

NextFrame ==
    \/ \E assertions \in BOOLEAN : SampleShared(assertions)
    \/ \E fn \in FrameFunctions :
          \E x \in ArgumentsOf(fn), assertions \in BOOLEAN :
              EvaluateShared(fn, x, assertions)

SpecFrame == InitFrame /\ [][NextFrame]_vars

\* what a step keeps.  No step changes a field of the distribution.  An
\* evaluation changes nothing but its own record, and a question asked
\* again, after however many samples, gets its first answer.  A sample
\* moves the source on by one read and changes nothing else
FrameKept ==
    /\ dist' = dist
    /\ UNCHANGED <<genVars, quantityVars, defaultVars, binomialVars,
                   drawVars, iter>>
    /\ call'.drawn = call.drawn =>
          /\ source' = source
          /\ call'.value = call'.first
          /\ call.op # "none" => call'.first = call.first
    /\ call'.drawn # call.drawn =>
          /\ Len(call'.drawn) = Len(call.drawn) + 1
          /\ [call' EXCEPT !.drawn = call.drawn] = call
          /\ source' = [source EXCEPT
                           !.state = StateAfter(source.state, 1),
                           !.calls = @ + 1]

====
